---- MODULE Spec2Model ----
(***************************************************************************)
(* Initial-credential acquisition of the Kerberos v5 client library        *)
(* (src/lib/krb5/krb/get_in_tkt.c): the all-in-one driver krb5_get_in_tkt, *)
(* the step API krb5_init_creds_step and its driver                        *)
(* krb5int_init_creds_get_ext.                                             *)
(*                                                                         *)
(* Error codes are strings carrying the C names, OK is the return value 0. *)
(* A pointer is the record of its target or NULL.  Wire messages are       *)
(* records: the ASN.1 codecs and the FAST wrapping are external, an        *)
(* encoded request is the record of the request fields the encoder reads.  *)
(***************************************************************************)
EXTENDS Integers, Sequences, FiniteSets, TLC

VARIABLES
    kcontext, \* krb5_context: library options, clock skew, time of day
    ctx,    \* krb5_init_creds_context of the step API
    last,   \* the most recent krb5_init_creds_step call: inputs, outputs, context before
    hist,   \* history of the step API exchange (completion, referrals followed)
    drv,    \* locals of krb5int_init_creds_get_ext
    git,    \* locals of krb5_get_in_tkt
    wire,   \* transmissions handed to krb5_sendto_kdc
    fn,     \* the most recent direct call of a helper routine
    pair    \* two step API contexts on one library context

vars == <<kcontext, ctx, last, hist, drv, git, wire, fn, pair>>

(***************************************************************************)
(* Program constants and model bounds                                      *)
(***************************************************************************)
MAX_IN_TKT_LOOPS == 16

KRB5_REFERRAL_MAXHOPS == 5

KRB5_INT32_MAX == 2147483647

KRB5_INT32_MIN == -KRB5_INT32_MAX - 1

\* Against a KDC that may send any reply, step calls are explored while
\* loopcount is below this bound.
MaxLoopcount == 2

\* Against the scripted KDC, step calls are explored while loopcount is below
\* this bound.
MaxLongLoopcount == 18

\* The clock read by krb5_get_in_tkt advances by at most this many seconds
\* during a call.
MaxTick == 1

(***************************************************************************)
(* Principals                                                              *)
(***************************************************************************)
KRB5_TGS_NAME == "krbtgt"

\* The NULL pointer: equal to no record that models an object.
NULL == [null |-> TRUE]

Princ(realm, data, type) == [realm |-> realm, data |-> data, type |-> type]

\* krb5_build_principal_ext(realm, "krbtgt", realm)
TgsPrinc(realm) == Princ(realm, <<KRB5_TGS_NAME, realm>>, "KRB5_NT_PRINCIPAL")

krb5_realm_compare(p1, p2) == p1.realm = p2.realm

krb5_principal_compare(p1, p2) == p1.realm = p2.realm /\ p1.data = p2.data

IS_TGS_PRINC(p) == Len(p.data) = 2 /\ p.data[1] = KRB5_TGS_NAME

Realms == {"A", "B"}

(***************************************************************************)
(* KDC error codes: the protocol code of a KRB-ERROR and the library code  *)
(* err_reply->error + ERROR_TABLE_BASE_krb5.                               *)
(***************************************************************************)
ErrPlusBase(e) ==
    CASE e = "KDC_ERR_PREAUTH_REQUIRED" -> "KRB5KDC_ERR_PREAUTH_REQUIRED"
      [] e = "KDC_ERR_WRONG_REALM" -> "KRB5KDC_ERR_WRONG_REALM"
      [] e = "KRB_ERR_RESPONSE_TOO_BIG" -> "KRB5KRB_ERR_RESPONSE_TOO_BIG"
      [] e = "KDC_ERR_C_PRINCIPAL_UNKNOWN" -> "KRB5KDC_ERR_C_PRINCIPAL_UNKNOWN"
      [] e = "KDC_ERR_PREAUTH_FAILED" -> "KRB5KDC_ERR_PREAUTH_FAILED"
      [] OTHER -> "KRB5KRB_ERR_GENERIC"

(***************************************************************************)
(* krb5int_addint32: 32 bit bounded addition                               *)
(***************************************************************************)
\* a + b or a - b in krb5_int32: v is the value in 32 bits, the sum or
\* difference reduced modulo 2^32, and overflow tells that it is not the
\* true one.
Int32Op(op, a, b) ==
    LET high == IF op = "+" THEN b > 0 /\ a > KRB5_INT32_MAX - b
                ELSE b < 0 /\ a > KRB5_INT32_MAX + b
        low == IF op = "+" THEN b < 0 /\ a < KRB5_INT32_MIN - b
               ELSE b > 0 /\ a < KRB5_INT32_MIN + b
    IN  [overflow |-> high \/ low,
         v |-> IF high
               THEN IF op = "+"
                    THEN ((a - KRB5_INT32_MAX) - 1) + ((b - KRB5_INT32_MAX) - 1)
                    ELSE ((a - KRB5_INT32_MAX) - 1) - ((b + KRB5_INT32_MAX) + 1)
               ELSE IF low
               THEN IF op = "+"
                    THEN ((a + KRB5_INT32_MAX) + 1) + ((b + KRB5_INT32_MAX) + 1)
                    ELSE ((a + KRB5_INT32_MAX) + 1) - ((b - KRB5_INT32_MAX) - 1)
               ELSE IF op = "+" THEN a + b ELSE a - b]

\* The addition without the bounds.
krb5int_addint32_unbounded(x, y) == Int32Op("+", x, y).v

krb5int_addint32(x, y) ==
    IF x > 0 /\ y > Int32Op("-", KRB5_INT32_MAX, x).v THEN KRB5_INT32_MAX
    ELSE IF x < 0 /\ y < Int32Op("-", KRB5_INT32_MIN, x).v
    THEN KRB5_INT32_MIN
    ELSE Int32Op("+", x, y).v

(***************************************************************************)
(* sort_krb5_padata_sequence: for each preferred type in turn, bubble the  *)
(* first matching entry at or after base to position base.  padata is a    *)
(* sequence of pa types, prefs the parsed preferred_preauth_types.         *)
(***************************************************************************)
RECURSIVE FirstMatch(_, _, _)
FirstMatch(padata, i, l) ==
    IF i > Len(padata) THEN 0
    ELSE IF padata[i] = l THEN i
    ELSE FirstMatch(padata, i + 1, l)

\* The matching entry exchanged with the one at base, the entries between
\* them left in place.
BubbleTo_exchanged(padata, base, i) ==
    [j \in 1..Len(padata) |->
        IF j = base THEN padata[i]
        ELSE IF j = i THEN padata[base]
        ELSE padata[j]]

BubbleTo(padata, base, i) ==
    [j \in 1..Len(padata) |->
        IF j = base THEN padata[i]
        ELSE IF j > base /\ j <= i THEN padata[j - 1]
        ELSE padata[j]]

RECURSIVE SortFrom(_, _, _)
SortFrom(padata, prefs, base) ==
    IF prefs = <<>> THEN padata
    ELSE LET i == FirstMatch(padata, base, Head(prefs))
         IN  IF i = 0 THEN SortFrom(padata, Tail(prefs), base)
             ELSE SortFrom(BubbleTo(padata, base, i), Tail(prefs), base + 1)

\* The built-in preference "17, 16, 15, 14" used when the profile names none.
DefaultPreauthTypes == <<17, 16, 15, 14>>

\* The loop over preauth_types, a sequence of characters: skip commas and
\* blanks, read a number with strtol (an optional sign, then digits), stop
\* at the end or where no number can be read.  The numbers read, in order.
RECURSIVE PreferredTypes(_)
PreferredTypes(p) ==
    LET RECURSIVE Skip(_)
        Skip(s) == IF s # <<>> /\ Head(s) \in {",", " "} THEN Skip(Tail(s))
                   ELSE s
        DigitValue(c) ==
            CASE c = "0" -> 0 [] c = "1" -> 1 [] c = "2" -> 2 [] c = "3" -> 3
              [] c = "4" -> 4 [] c = "5" -> 5 [] c = "6" -> 6 [] c = "7" -> 7
              [] c = "8" -> 8 [] c = "9" -> 9 [] OTHER -> -1
        RECURSIVE Digits(_, _, _)
        Digits(s, l, n) ==
            IF s # <<>> /\ DigitValue(Head(s)) >= 0
            THEN Digits(Tail(s), 10 * l + DigitValue(Head(s)), n + 1)
            ELSE [l |-> l, n |-> n, q |-> s]
        e == Skip(p)
        signed == e # <<>> /\ Head(e) \in {"-", "+"}
        d == Digits(IF signed THEN Tail(e) ELSE e, 0, 0)
    IN  IF e = <<>> THEN <<>>
        ELSE IF d.n = 0 THEN <<>>
        ELSE <<IF signed /\ Head(e) = "-" THEN 0 - d.l ELSE d.l>>
             \o PreferredTypes(d.q)

\* A padata list is NULL or [list |-> sequence of pa types]; no
\* preferred_preauth_types in the profile.
sort_krb5_padata_sequence(padata) ==
    IF padata = NULL \/ padata.list = <<>> THEN padata
    ELSE [list |-> SortFrom(padata.list, DefaultPreauthTypes, 1)]

\* make_preauth_list: a non-NULL list with one entry per requested type.
make_preauth_list(ptypes) == [list |-> ptypes]

(***************************************************************************)
(* build_in_tkt_name: the parsed service name with its realm overwritten    *)
(* by the client realm, or krbtgt/REALM@REALM of the client realm.  A       *)
(* service is NULL or the principal krb5_parse_name returns for it.         *)
(***************************************************************************)
\* build_in_tkt_name leaving the realm of a parsed service name as parsed.
build_in_tkt_name_parsed_realm(in_tkt_service, client) ==
    IF in_tkt_service # NULL THEN in_tkt_service
    ELSE TgsPrinc(client.realm)

build_in_tkt_name(in_tkt_service, client) ==
    IF in_tkt_service # NULL
    THEN [in_tkt_service EXCEPT !.realm = client.realm]
    ELSE TgsPrinc(client.realm)

(***************************************************************************)
(* rewrite_server_realm: a copy of old_server with its realm, and for a TGS *)
(* request its second name component, replaced by realm.                    *)
(***************************************************************************)
\* rewrite_server_realm without the tgs branch.
rewrite_server_realm_realm_only(old_server, realm, tgs) ==
    [old_server EXCEPT !.realm = realm]

rewrite_server_realm(old_server, realm, tgs) ==
    IF tgs
    THEN [old_server EXCEPT !.realm = realm, !.data[2] = realm]
    ELSE [old_server EXCEPT !.realm = realm]

\* tgt_is_local_realm(creds)
tgt_is_local_realm(client, server) ==
    /\ Len(server.data) = 2
    /\ server.data[1] = KRB5_TGS_NAME
    /\ server.data[2] = client.realm
    /\ server.realm = client.realm

(***************************************************************************)
(* Requests, replies and their encodings                                   *)
(***************************************************************************)
OK == "0"

\* labs taken as the identity.
Abs_identity(x) == x

Abs(x) == IF x < 0 THEN -x ELSE x

\* encode_krb5_as_req: the request fields that go on the wire.
encode_krb5_as_req(request) ==
    [kind |-> "AS_REQ",
     kdc_options |-> request.kdc_options,
     client |-> request.client,
     server |-> request.server,
     from |-> request.from,
     till |-> request.till,
     rtime |-> request.rtime,
     nonce |-> request.nonce,
     padata |-> request.padata]

\* A krb5_data of length 0.
EmptyData == [kind |-> "EMPTY"]

ZeroTimes == [authtime |-> 0, starttime |-> 0, endtime |-> 0, renew_till |-> 0]

\* The zero-filled krb5_creds of a fresh context.
EmptyCreds ==
    [client |-> NULL, server |-> NULL, keyblock |-> "", times |-> ZeroTimes,
     ticket_flags |-> {}, addresses |-> NULL, ticket |-> NULL]

\* The first two bytes of a reply make it a version 4 error reply.
IsV4Reply(reply) ==
    LET t_switch == reply.b1 - (reply.b1 % 2)
    IN  t_switch = 10 /\ reply.b0 = 4

(***************************************************************************)
(* verify_as_reply: the checks of a decrypted AS-REP against the request.   *)
(* Returns the code and the reply with a zero starttime replaced by         *)
(* authtime; set_time tells that krb5_set_real_time was called.             *)
(***************************************************************************)
\* verify_as_reply without the test of endtime against till.
verify_as_reply_endtime_unchecked(context, time_now, request, as_reply) ==
    LET enc0 == as_reply.enc_part2
        enc == IF enc0.times.starttime = 0
               THEN [enc0 EXCEPT !.times.starttime = enc0.times.authtime]
               ELSE enc0
        rep == [as_reply EXCEPT !.enc_part2 = enc]
        canon_req == \/ "CANONICALIZE" \in request.kdc_options
                     \/ request.client.type = "KRB5_NT_ENTERPRISE_PRINCIPAL"
        canon_ok == IF canon_req
                    THEN IS_TGS_PRINC(request.server) /\ IS_TGS_PRINC(enc.server)
                    ELSE FALSE
        modified ==
            \/ /\ ~canon_ok
               /\ \/ ~krb5_principal_compare(rep.client, request.client)
                  \/ ~krb5_principal_compare(enc.server, request.server)
            \/ ~krb5_principal_compare(enc.server, rep.ticket_server)
            \/ request.nonce # enc.nonce
            \/ /\ "POSTDATED" \in request.kdc_options
               /\ request.from # 0
               /\ request.from # enc.times.starttime
            \/ /\ "RENEWABLE" \in request.kdc_options
               /\ request.rtime # 0
               /\ enc.times.renew_till > request.rtime
            \/ /\ "RENEWABLE_OK" \in request.kdc_options
               /\ "RENEWABLE" \notin request.kdc_options
               /\ "RENEWABLE" \in enc.flags
               /\ request.till # 0
               /\ enc.times.renew_till > request.till
    IN  IF modified
        THEN [code |-> "KRB5_KDCREP_MODIFIED", reply |-> rep, set_time |-> FALSE]
        ELSE IF context.sync_kdctime
        THEN [code |-> OK, reply |-> rep, set_time |-> TRUE]
        ELSE IF /\ request.from = 0
                /\ Abs(enc.times.starttime - time_now) > context.clockskew
        THEN [code |-> "KRB5_KDCREP_SKEW", reply |-> rep, set_time |-> FALSE]
        ELSE [code |-> OK, reply |-> rep, set_time |-> FALSE]

verify_as_reply(context, time_now, request, as_reply) ==
    LET enc0 == as_reply.enc_part2
        enc == IF enc0.times.starttime = 0
               THEN [enc0 EXCEPT !.times.starttime = enc0.times.authtime]
               ELSE enc0
        rep == [as_reply EXCEPT !.enc_part2 = enc]
        canon_req == \/ "CANONICALIZE" \in request.kdc_options
                     \/ request.client.type = "KRB5_NT_ENTERPRISE_PRINCIPAL"
        canon_ok == IF canon_req
                    THEN IS_TGS_PRINC(request.server) /\ IS_TGS_PRINC(enc.server)
                    ELSE FALSE
        modified ==
            \/ /\ ~canon_ok
               /\ \/ ~krb5_principal_compare(rep.client, request.client)
                  \/ ~krb5_principal_compare(enc.server, request.server)
            \/ ~krb5_principal_compare(enc.server, rep.ticket_server)
            \/ request.nonce # enc.nonce
            \/ /\ "POSTDATED" \in request.kdc_options
               /\ request.from # 0
               /\ request.from # enc.times.starttime
            \/ /\ request.till # 0
               /\ enc.times.endtime > request.till
            \/ /\ "RENEWABLE" \in request.kdc_options
               /\ request.rtime # 0
               /\ enc.times.renew_till > request.rtime
            \/ /\ "RENEWABLE_OK" \in request.kdc_options
               /\ "RENEWABLE" \notin request.kdc_options
               /\ "RENEWABLE" \in enc.flags
               /\ request.till # 0
               /\ enc.times.renew_till > request.till
    IN  IF modified
        THEN [code |-> "KRB5_KDCREP_MODIFIED", reply |-> rep, set_time |-> FALSE]
        ELSE IF context.sync_kdctime
        THEN [code |-> OK, reply |-> rep, set_time |-> TRUE]
        ELSE IF /\ request.from = 0
                /\ Abs(enc.times.starttime - time_now) > context.clockskew
        THEN [code |-> "KRB5_KDCREP_SKEW", reply |-> rep, set_time |-> FALSE]
        ELSE [code |-> OK, reply |-> rep, set_time |-> FALSE]

(***************************************************************************)
(* stash_as_reply: fill creds from the reply and store them in ccache (NULL *)
(* or the record of the credentials stored).  fail names the routine that   *)
(* fails: "stash_as_reply" stands for encode_krb5_ticket.  The cleanup      *)
(* releases the key, the ticket and the addresses, and the principals       *)
(* copied from the reply; freed tells what it released, the key with the    *)
(* bytes it held when released.                                             *)
(***************************************************************************)
\* The bytes of a key: none for no key.
KeyContents(key) ==
    CASE key = "" -> <<>>
      [] key = "K1" -> <<75, 49>>
      [] key = "K2" -> <<75, 50>>
      [] OTHER -> <<83, 49>>

\* stash_as_reply releasing the session key without the memset.
stash_as_reply_key_not_cleared(as_reply, creds, ccache, fail) ==
    LET enc == as_reply.enc_part2
        \* the principals copied so far when the routine named by at fails
        Copied(at) ==
            [client |-> creds.client = NULL /\ at # "copy_client",
             server |-> creds.server = NULL
                        /\ at \notin {"copy_client", "copy_server"}]
        \* the cleanup after a failure: cr is creds as the failure left it
        Cleanup(code, cr, at) ==
            [code |-> code,
             creds |-> [cr EXCEPT !.keyblock = "", !.ticket = NULL,
                                  !.addresses = NULL],
             ccache |-> ccache,
             freed |-> [principals |-> Copied(at),
                        keyblock |->
                            IF cr.keyblock = "" THEN NULL
                            ELSE [bytes |-> KeyContents(cr.keyblock)],
                        ticket |-> cr.ticket # NULL,
                        addresses |-> cr.addresses # NULL]]
        keyed == [creds EXCEPT !.keyblock = enc.session]
        timed == [keyed EXCEPT !.times = enc.times,
                               !.ticket_flags = enc.flags]
        filled == [timed EXCEPT !.addresses = enc.caddrs]
        ticketed == [filled EXCEPT
                        !.ticket = [server |-> as_reply.ticket_server]]
    IN  IF creds.client = NULL /\ fail = "copy_client"
        THEN Cleanup("ENOMEM", creds, "copy_client")
        ELSE IF creds.server = NULL /\ fail = "copy_server"
        THEN Cleanup("ENOMEM", creds, "copy_server")
        ELSE IF fail = "krb5_copy_keyblock_contents"
        THEN Cleanup("ENOMEM", creds, fail)
        ELSE IF enc.caddrs # NULL /\ fail = "krb5_copy_addresses"
        THEN Cleanup("ENOMEM", timed, fail)
        ELSE IF fail \in {"stash_as_reply", "encode_krb5_ticket"}
        THEN Cleanup("ENOMEM", filled, fail)
        ELSE IF ccache # NULL /\ fail = "krb5_cc_store_cred"
        THEN Cleanup("KRB5_CC_IO", ticketed, fail)
        ELSE [code |-> OK,
              creds |-> [ticketed EXCEPT
                  !.client = IF creds.client = NULL THEN as_reply.client
                             ELSE creds.client,
                  !.server = IF creds.server = NULL THEN enc.server
                             ELSE creds.server],
              ccache |-> IF ccache = NULL THEN NULL
                         ELSE [stored |-> Append(ccache.stored, ticketed)],
              freed |-> [principals |-> [client |-> FALSE, server |-> FALSE],
                         keyblock |-> NULL, ticket |-> FALSE,
                         addresses |-> FALSE]]

stash_as_reply(as_reply, creds, ccache, fail) ==
    LET enc == as_reply.enc_part2
        \* the principals copied so far when the routine named by at fails
        Copied(at) ==
            [client |-> creds.client = NULL /\ at # "copy_client",
             server |-> creds.server = NULL
                        /\ at \notin {"copy_client", "copy_server"}]
        \* the cleanup after a failure: cr is creds as the failure left it
        Cleanup(code, cr, at) ==
            [code |-> code,
             creds |-> [cr EXCEPT !.keyblock = "", !.ticket = NULL,
                                  !.addresses = NULL],
             ccache |-> ccache,
             freed |-> [principals |-> Copied(at),
                        keyblock |->
                            IF cr.keyblock = "" THEN NULL
                            ELSE [bytes |-> [i \in 1..Len(KeyContents(cr.keyblock)) |-> 0]],
                        ticket |-> cr.ticket # NULL,
                        addresses |-> cr.addresses # NULL]]
        keyed == [creds EXCEPT !.keyblock = enc.session]
        timed == [keyed EXCEPT !.times = enc.times,
                               !.ticket_flags = enc.flags]
        filled == [timed EXCEPT !.addresses = enc.caddrs]
        ticketed == [filled EXCEPT
                        !.ticket = [server |-> as_reply.ticket_server]]
    IN  IF creds.client = NULL /\ fail = "copy_client"
        THEN Cleanup("ENOMEM", creds, "copy_client")
        ELSE IF creds.server = NULL /\ fail = "copy_server"
        THEN Cleanup("ENOMEM", creds, "copy_server")
        ELSE IF fail = "krb5_copy_keyblock_contents"
        THEN Cleanup("ENOMEM", creds, fail)
        ELSE IF enc.caddrs # NULL /\ fail = "krb5_copy_addresses"
        THEN Cleanup("ENOMEM", timed, fail)
        ELSE IF fail \in {"stash_as_reply", "encode_krb5_ticket"}
        THEN Cleanup("ENOMEM", filled, fail)
        ELSE IF ccache # NULL /\ fail = "krb5_cc_store_cred"
        THEN Cleanup("KRB5_CC_IO", ticketed, fail)
        ELSE [code |-> OK,
              creds |-> [ticketed EXCEPT
                  !.client = IF creds.client = NULL THEN as_reply.client
                             ELSE creds.client,
                  !.server = IF creds.server = NULL THEN enc.server
                             ELSE creds.server],
              ccache |-> IF ccache = NULL THEN NULL
                         ELSE [stored |-> Append(ccache.stored, ticketed)],
              freed |-> [principals |-> [client |-> FALSE, server |-> FALSE],
                         keyblock |-> NULL, ticket |-> FALSE,
                         addresses |-> FALSE]]

(***************************************************************************)
(* The step API.  ext is the outcome of the external routines during one    *)
(* call: ext.fail names the routine that fails ("none": all succeed,        *)
(* "fast": every krb5int_fast_ routine, so the first one reached),          *)
(* ext.pa_out is the padata the pre-auth plugins produce, ext.pa_key the    *)
(* AS key they derive ("": none) and ext.gak_key the key gak_fct returns.   *)
(***************************************************************************)
Ret(c, code) == [ctx |-> c, code |-> code]

\* decode_krb5_as_rep: the krb5_kdc_rep of a reply that decodes; enc is the
\* encrypted part, key the key that opens it, enc_part2 is not yet there.
decode_krb5_as_rep(reply) ==
    [client |-> reply.client, padata |-> reply.padata,
     ticket_server |-> reply.ticket_server, key |-> reply.key,
     enc |-> reply.enc, enc_part2 |-> NULL]

\* init_creds_validate_reply: classify and decode the reply.
init_creds_validate_reply(c, reply) ==
    LET c1 == [c EXCEPT !.err_reply = NULL, !.reply = NULL]
    IN  IF reply.kind = "KRB_ERROR"
        THEN IF ~reply.decodes THEN Ret(c1, "ASN1_PARSE_ERROR")
             ELSE IF reply.error = "KRB_ERR_RESPONSE_TOO_BIG"
             THEN Ret(c1, "KRB5KRB_ERR_RESPONSE_TOO_BIG")
             ELSE Ret([c1 EXCEPT !.err_reply =
                          [error |-> reply.error, client |-> reply.client,
                           e_data |-> reply.e_data]], OK)
        ELSE IF reply.kind # "EMPTY" /\ reply.kind # "AS_REP"
        THEN IF IsV4Reply(reply) THEN Ret(c1, "KRB5KRB_AP_ERR_V4_REPLY")
             ELSE Ret(c1, "KRB5KRB_AP_ERR_MSG_TYPE")
        ELSE IF reply.kind = "EMPTY" \/ ~reply.decodes
        THEN Ret(c1, "ASN1_PARSE_ERROR")
        ELSE IF reply.msg_type # "KRB5_AS_REP"
        THEN Ret(c1, "KRB5KRB_AP_ERR_MSG_TYPE")
        ELSE Ret([c1 EXCEPT !.reply = decode_krb5_as_rep(reply)], OK)

\* krb5int_fast_process_error without armor: the hints are the padata of
\* the e-data, and a retry is possible when there is e-data.
krb5int_fast_process_error(err_reply) ==
    [padata |-> IF err_reply.e_data = <<>> THEN NULL
                ELSE [list |-> err_reply.e_data],
     retry |-> err_reply.e_data # <<>>]

\* decrypt_as_reply with a key: a reply already decrypted is left alone.
decrypt_as_reply(as_reply, key) ==
    IF as_reply.enc_part2 # NULL THEN [code |-> OK, reply |-> as_reply]
    ELSE IF key = as_reply.key
    THEN [code |-> OK, reply |-> [as_reply EXCEPT !.enc_part2 = as_reply.enc]]
    ELSE [code |-> "KRB5KRB_AP_ERR_BAD_INTEGRITY", reply |-> as_reply]

\* The KRB-ERROR branch of init_creds_step_reply.
StepReplyError(c, ext) ==
    LET canon_flag == \/ "CANONICALIZE" \in c.request.kdc_options
                      \/ c.request.client.type = "KRB5_NT_ENTERPRISE_PRINCIPAL"
        fast == krb5int_fast_process_error(c.err_reply)
    IN  IF ext.fail = "fast" THEN Ret(c, "ENOMEM")
        ELSE IF c.err_reply.error = "KDC_ERR_PREAUTH_REQUIRED" /\ fast.retry
        THEN Ret([c EXCEPT !.preauth_to_use =
                      sort_krb5_padata_sequence(fast.padata)], OK)
        ELSE IF canon_flag /\ c.err_reply.error = "KDC_ERR_WRONG_REALM"
        THEN IF c.err_reply.client = NULL \/ c.err_reply.client.realm = ""
             THEN Ret(c, "KRB5KDC_ERR_WRONG_REALM")
             ELSE Ret([c EXCEPT !.request.client.realm =
                           c.err_reply.client.realm], OK)
        ELSE IF fast.retry THEN Ret(c, OK)
        ELSE Ret(c, ErrPlusBase(c.err_reply.error))

\* The tail of the AS-REP branch: verify, stash, complete.  v is the result
\* of verify_as_reply, st the result of stash_as_reply.
StepReplyStashed(c, st) ==
    [ctx |-> [c EXCEPT !.cred = st.creds], code |-> st.code,
     complete |-> st.code = OK]

\* The tail without the test of the result of verify_as_reply.
StepReplyVerified_unchecked(c, v, ext) ==
    StepReplyStashed([c EXCEPT !.reply = v.reply],
                     stash_as_reply(v.reply, c.cred, NULL, ext.fail))

\* The tail stashing the reply before the test of the result of
\* verify_as_reply.
StepReplyVerified_stash_first(c, v, ext) ==
    IF v.code # OK
    THEN [ctx |-> [c EXCEPT !.reply = v.reply,
                            !.cred = stash_as_reply(v.reply, c.cred, NULL,
                                                    ext.fail).creds],
          code |-> v.code, complete |-> FALSE]
    ELSE StepReplyStashed([c EXCEPT !.reply = v.reply],
                          stash_as_reply(v.reply, c.cred, NULL, ext.fail))

StepReplyVerified(c, v, ext) ==
    IF v.code # OK
    THEN [ctx |-> [c EXCEPT !.reply = v.reply], code |-> v.code,
          complete |-> FALSE]
    ELSE StepReplyStashed([c EXCEPT !.reply = v.reply],
                          stash_as_reply(v.reply, c.cred, NULL, ext.fail))

\* The verification against the time the reply is processed.
StepReplyVerify_time_of_reply(context, c, ext) ==
    StepReplyVerified(c,
        verify_as_reply(context, context.now, c.request, c.reply), ext)

StepReplyVerify(context, c, ext) ==
    StepReplyVerified(c,
        verify_as_reply(context, c.request_time, c.request, c.reply), ext)

\* The AS-REP branch returning the failure of the decryption with the key
\* already present, gak_fct not asked.
StepReplyAsRep_no_retry(context, c, ext) ==
    LET Fail(cc, code) == [ctx |-> cc, code |-> code, complete |-> FALSE]
        c1 == [c EXCEPT !.reply.padata = sort_krb5_padata_sequence(c.reply.padata),
                        !.as_key = IF ext.pa_key # "" THEN ext.pa_key
                                   ELSE c.as_key]
        d1 == decrypt_as_reply(c1.reply, c1.as_key)
        c2 == [c1 EXCEPT !.reply = d1.reply]
        c3 == [c1 EXCEPT !.as_key = ext.gak_key]
        d2 == decrypt_as_reply(c3.reply, c3.as_key)
        c4 == [c3 EXCEPT !.reply = d2.reply]
    IN  IF c.loopcount >= MAX_IN_TKT_LOOPS THEN Fail(c, "KRB5_GET_IN_TKT_LOOP")
        ELSE IF ext.fail = "fast" THEN Fail(c, "ENOMEM")
        ELSE IF ext.fail = "reply_preauth"
        THEN Fail([c EXCEPT !.reply.padata = c1.reply.padata],
                  "KRB5_PREAUTH_FAILED")
        ELSE IF c1.as_key # "" /\ ext.fail = "fast"
        THEN Fail(c1, "ENOMEM")
        ELSE IF c1.as_key # "" /\ d1.code = OK
        THEN StepReplyVerify(context, c2, ext)
        ELSE IF c1.as_key # "" THEN Fail(c2, d1.code)
        ELSE IF ext.fail = "gak_fct" THEN Fail(c1, "KRB5_LIBOS_PWDINTR")
        ELSE IF ext.fail = "fast" THEN Fail(c3, "ENOMEM")
        ELSE IF d2.code # OK THEN Fail(c4, d2.code)
        ELSE StepReplyVerify(context, c4, ext)

\* The AS-REP branch without the test of loopcount.
StepReplyAsRep_loop_unchecked(context, c, ext) ==
    LET Fail(cc, code) == [ctx |-> cc, code |-> code, complete |-> FALSE]
        c1 == [c EXCEPT !.reply.padata = sort_krb5_padata_sequence(c.reply.padata),
                        !.as_key = IF ext.pa_key # "" THEN ext.pa_key
                                   ELSE c.as_key]
        d1 == decrypt_as_reply(c1.reply, c1.as_key)
        c2 == [c1 EXCEPT !.reply = d1.reply]
        c3 == [c1 EXCEPT !.as_key = ext.gak_key]
        d2 == decrypt_as_reply(c3.reply, c3.as_key)
        c4 == [c3 EXCEPT !.reply = d2.reply]
    IN  IF ext.fail = "fast" THEN Fail(c, "ENOMEM")
        ELSE IF ext.fail = "reply_preauth"
        THEN Fail([c EXCEPT !.reply.padata = c1.reply.padata],
                  "KRB5_PREAUTH_FAILED")
        ELSE IF c1.as_key # "" /\ ext.fail = "fast"
        THEN Fail(c1, "ENOMEM")
        ELSE IF c1.as_key # "" /\ d1.code = OK
        THEN StepReplyVerify(context, c2, ext)
        ELSE IF ext.fail = "gak_fct" THEN Fail(c1, "KRB5_LIBOS_PWDINTR")
        ELSE IF ext.fail = "fast" THEN Fail(c3, "ENOMEM")
        ELSE IF d2.code # OK THEN Fail(c4, d2.code)
        ELSE StepReplyVerify(context, c4, ext)

\* The AS-REP branch of init_creds_step_reply.
StepReplyAsRep(context, c, ext) ==
    LET Fail(cc, code) == [ctx |-> cc, code |-> code, complete |-> FALSE]
        c1 == [c EXCEPT !.reply.padata = sort_krb5_padata_sequence(c.reply.padata),
                        !.as_key = IF ext.pa_key # "" THEN ext.pa_key
                                   ELSE c.as_key]
        d1 == decrypt_as_reply(c1.reply, c1.as_key)
        c2 == [c1 EXCEPT !.reply = d1.reply]
        c3 == [c1 EXCEPT !.as_key = ext.gak_key]
        d2 == decrypt_as_reply(c3.reply, c3.as_key)
        c4 == [c3 EXCEPT !.reply = d2.reply]
    IN  IF c.loopcount >= MAX_IN_TKT_LOOPS THEN Fail(c, "KRB5_GET_IN_TKT_LOOP")
        ELSE IF ext.fail = "fast" THEN Fail(c, "ENOMEM")
        ELSE IF ext.fail = "reply_preauth"
        THEN Fail([c EXCEPT !.reply.padata = c1.reply.padata],
                  "KRB5_PREAUTH_FAILED")
        ELSE IF c1.as_key # "" /\ ext.fail = "fast"
        THEN Fail(c1, "ENOMEM")
        ELSE IF c1.as_key # "" /\ d1.code = OK
        THEN StepReplyVerify(context, c2, ext)
        ELSE IF ext.fail = "gak_fct" THEN Fail(c1, "KRB5_LIBOS_PWDINTR")
        ELSE IF ext.fail = "fast" THEN Fail(c3, "ENOMEM")
        ELSE IF d2.code # OK THEN Fail(c4, d2.code)
        ELSE StepReplyVerify(context, c4, ext)

\* init_creds_step_reply; val is the result of init_creds_validate_reply.
NotComplete(r) == [ctx |-> r.ctx, code |-> r.code, complete |-> FALSE]

StepReplyValidated(context, val, ext) ==
    IF val.code # OK THEN NotComplete(val)
    ELSE IF val.ctx.err_reply # NULL
    THEN NotComplete(StepReplyError(val.ctx, ext))
    ELSE StepReplyAsRep(context, val.ctx, ext)

init_creds_step_reply(context, c, in, ext) ==
    StepReplyValidated(context, init_creds_validate_reply(c, in), ext)

\* The first-iteration block leaving RENEWABLE_OK in the options.
StepRequestFirst_renewable_ok_kept(context, c, ext) ==
    LET c1 == [c EXCEPT !.request_time = context.now]
        from == krb5int_addint32(c1.request_time, c1.start_time)
        rtime0 == krb5int_addint32(from, c1.renew_life)
        c2 == IF c1.renew_life > 0
              THEN [c1 EXCEPT
                       !.request.from = from,
                       !.request.rtime = IF rtime0 < c1.request.till
                                         THEN c1.request.till ELSE rtime0]
              ELSE [c1 EXCEPT !.request.from = from, !.request.rtime = 0]
    IN  IF ext.fail = "krb5_timeofday" THEN Ret(c, "KRB5_CONFIG_CANTOPEN")
        ELSE IF ext.fail = "fast" THEN Ret(c1, "ENOMEM")
        ELSE Ret(c2, OK)

\* The first-iteration block of init_creds_step_request (loopcount == 0).
\* The first-iteration block taking the nonce from the time of day, as
\* krb5_get_in_tkt does.
StepRequestFirst_nonce_from_clock(context, c, ext) ==
    LET c1 == [c EXCEPT !.request_time = context.now,
                        !.request.nonce = context.now]
        from == krb5int_addint32(c1.request_time, c1.start_time)
        rtime0 == krb5int_addint32(from, c1.renew_life)
        c2 == IF c1.renew_life > 0
              THEN [c1 EXCEPT
                       !.request.from = from,
                       !.request.rtime = IF rtime0 < c1.request.till
                                         THEN c1.request.till ELSE rtime0,
                       !.request.kdc_options = @ \ {"RENEWABLE_OK"}]
              ELSE [c1 EXCEPT !.request.from = from, !.request.rtime = 0]
    IN  IF ext.fail = "krb5_timeofday" THEN Ret(c, "KRB5_CONFIG_CANTOPEN")
        ELSE IF ext.fail = "fast" THEN Ret(c1, "ENOMEM")
        ELSE Ret(c2, OK)

StepRequestFirst(context, c, ext) ==
    LET c1 == [c EXCEPT !.request_time = context.now]
        from == krb5int_addint32(c1.request_time, c1.start_time)
        rtime0 == krb5int_addint32(from, c1.renew_life)
        c2 == IF c1.renew_life > 0
              THEN [c1 EXCEPT
                       !.request.from = from,
                       !.request.rtime = IF rtime0 < c1.request.till
                                         THEN c1.request.till ELSE rtime0,
                       !.request.kdc_options = @ \ {"RENEWABLE_OK"}]
              ELSE [c1 EXCEPT !.request.from = from, !.request.rtime = 0]
    IN  IF ext.fail = "krb5_timeofday" THEN Ret(c, "KRB5_CONFIG_CANTOPEN")
        ELSE IF ext.fail = "fast" THEN Ret(c1, "ENOMEM")
        ELSE Ret(c2, OK)

\* The pre-auth block of init_creds_step_request: krb5_do_preauth when no
\* error reply is held, krb5_do_preauth_tryagain over preauth_to_use else.
StepRequestPreauth(c, ext) ==
    LET done == [c EXCEPT !.request.padata = ext.pa_out,
                          !.as_key = IF ext.pa_key # "" THEN ext.pa_key
                                     ELSE c.as_key]
    IN  IF c.err_reply = NULL
        THEN IF ext.fail = "preauth"
             THEN [ctx |-> c, code |-> "KRB5_PREAUTH_FAILED", entry |-> "none"]
             ELSE [ctx |-> done, code |-> OK, entry |-> "krb5_do_preauth"]
        ELSE IF c.preauth_to_use # NULL /\ ext.fail # "preauth"
        THEN [ctx |-> done, code |-> OK, entry |-> "krb5_do_preauth_tryagain"]
        ELSE [ctx |-> c, code |-> ErrPlusBase(c.err_reply.error),
              entry |-> "none"]

\* init_creds_step_request: out is the caller's buffer, left alone on
\* failure.  first is the result of the first-iteration block, pre the
\* result of the pre-auth block.
StepRequestFail(c, code, out) ==
    [ctx |-> c, code |-> code, out |-> out, entry |-> "none"]

StepRequestEncode(pre, out, ext) ==
    IF pre.code # OK THEN StepRequestFail(pre.ctx, pre.code, out)
    ELSE IF ext.fail = "fast"
    THEN StepRequestFail([pre.ctx EXCEPT !.encoded_previous_request = NULL],
                         "ENOMEM", out)
    ELSE [ctx |-> [pre.ctx EXCEPT !.encoded_previous_request =
                       encode_krb5_as_req(pre.ctx.request)],
          code |-> OK, out |-> encode_krb5_as_req(pre.ctx.request),
          entry |-> pre.entry]

StepRequestNamed(first, out, ext) ==
    IF first.code # OK THEN StepRequestFail(first.ctx, first.code, out)
    ELSE StepRequestEncode(StepRequestPreauth(first.ctx, ext), out, ext)

init_creds_step_request(context, c, out, ext) ==
    IF ext.fail = "build_in_tkt_name"
    THEN StepRequestFail([c EXCEPT !.request.server = NULL], "ENOMEM", out)
    ELSE IF c.loopcount = 0
    THEN StepRequestNamed(
             StepRequestFirst(context,
                 [c EXCEPT !.request.server =
                     build_in_tkt_name(c.in_tkt_service, c.request.client)],
                 ext), out, ext)
    ELSE StepRequestNamed(
             Ret([c EXCEPT !.request.server =
                     build_in_tkt_name(c.in_tkt_service, c.request.client)],
                 OK), out, ext)

(***************************************************************************)
(* krb5_init_creds_step: one turn.  The result holds the context after the  *)
(* call, the return code, the out and realm buffers and the COMPLETE flag;  *)
(* entry names the pre-auth entry point that built the request.             *)
(***************************************************************************)
\* The request half: rq is the result of init_creds_step_request.
StepRequested(rq) ==
    IF rq.code # OK
    THEN [ctx |-> rq.ctx, code |-> rq.code, out |-> rq.out,
          realm |-> "", complete |-> FALSE, entry |-> rq.entry]
    ELSE [ctx |-> [rq.ctx EXCEPT !.loopcount = @ + 1], code |-> OK,
          out |-> rq.out, realm |-> rq.ctx.request.server.realm,
          complete |-> FALSE, entry |-> rq.entry]

StepRequestPart(context, c, out, ext) ==
    StepRequested(init_creds_step_request(context, c, out, ext))

\* The continuation that goes on to the request half after COMPLETE.
StepReplied_past_complete(context, rp, ext) ==
    IF rp.code = "KRB5KRB_ERR_RESPONSE_TOO_BIG"
    THEN StepRequestPart(context, rp.ctx, rp.ctx.encoded_previous_request, ext)
    ELSE IF rp.code # OK
    THEN [ctx |-> rp.ctx, code |-> rp.code, out |-> EmptyData, realm |-> "",
          complete |-> rp.complete, entry |-> "none"]
    ELSE [StepRequestPart(context, rp.ctx, EmptyData, ext)
             EXCEPT !.complete = rp.complete]

\* After init_creds_step_reply returned rp: KRB5KRB_ERR_RESPONSE_TOO_BIG
\* is replaced by the result of copying encoded_previous_request to out.
StepReplied(context, rp, ext) ==
    IF rp.code = "KRB5KRB_ERR_RESPONSE_TOO_BIG"
    THEN StepRequestPart(context, rp.ctx, rp.ctx.encoded_previous_request, ext)
    ELSE IF rp.code # OK \/ rp.complete
    THEN [ctx |-> rp.ctx, code |-> rp.code, out |-> EmptyData, realm |-> "",
          complete |-> rp.complete, entry |-> "none"]
    ELSE StepRequestPart(context, rp.ctx, EmptyData, ext)

krb5_init_creds_step(context, c, in, ext) ==
    IF in.kind = "EMPTY" THEN StepRequestPart(context, c, EmptyData, ext)
    ELSE StepReplied(context, init_creds_step_reply(context, c, in, ext), ext)

(***************************************************************************)
(* krb5_init_creds_init: the context after construction.  opt holds the     *)
(* caller's options: canonicalize, the pre-auth type list (NULL: none) and  *)
(* the lifetimes; nonce is the 31 bit random nonce.                         *)
(***************************************************************************)
krb5_init_creds_init(client, start_time, opt, nonce) ==
    [request |->
        [kdc_options |->
            {"RENEWABLE_OK"}
            \cup (IF opt.canonicalize THEN {"CANONICALIZE"} ELSE {})
            \cup (IF start_time > 0 THEN {"ALLOW_POSTDATE", "POSTDATED"} ELSE {})
            \cup (IF opt.renew_life > 0 THEN {"RENEWABLE"} ELSE {}),
         client |-> client, server |-> NULL,
         from |-> 0, till |-> 0, rtime |-> 0,
         nonce |-> nonce, padata |-> <<>>],
     start_time |-> start_time,
     tkt_life |-> opt.tkt_life,
     renew_life |-> opt.renew_life,
     request_time |-> 0,
     in_tkt_service |-> NULL,
     preauth_to_use |-> IF opt.preauth_list = NULL THEN NULL
                        ELSE make_preauth_list(opt.preauth_list.list),
     err_reply |-> NULL,
     reply |-> NULL,
     encoded_previous_request |-> NULL,
     as_key |-> "",
     cred |-> EmptyCreds,
     loopcount |-> 0]

\* krb5_init_creds_set_service
krb5_init_creds_set_service(c, service) == [c EXCEPT !.in_tkt_service = service]

\* krb5_init_creds_get_error: *error is NULL or a copy of the error the
\* context holds, field by field, the client only when there is one.  fail
\* names the allocation or copy that fails ("none": all succeed).
krb5_init_creds_get_error(c, fail) ==
    IF c.err_reply = NULL THEN [code |-> OK, error |-> NULL]
    ELSE IF fail # "none" THEN [code |-> "ENOMEM", error |-> NULL]
    ELSE [code |-> OK,
          error |-> [error |-> c.err_reply.error,
                     client |-> IF c.err_reply.client # NULL
                                THEN c.err_reply.client ELSE NULL,
                     e_data |-> c.err_reply.e_data]]

(***************************************************************************)
(* Inputs: clients, options, outcomes of the external routines, KDC replies *)
(***************************************************************************)
Clients ==
    {Princ("A", <<"u">>, "KRB5_NT_PRINCIPAL"),
     Princ("A", <<"u">>, "KRB5_NT_ENTERPRISE_PRINCIPAL")}

\* Canonicalization by option, by an enterprise client, or not at all.
ClientSetups ==
    {cs \in [client : Clients, canonicalize : BOOLEAN] :
        ~(cs.canonicalize /\ cs.client.type = "KRB5_NT_ENTERPRISE_PRINCIPAL")}

Services == {NULL, Princ("A", <<"kadmin", "changepw">>, "KRB5_NT_PRINCIPAL")}

InitOptions(canonicalize) ==
    {[canonicalize |-> canonicalize, preauth_list |-> pl, tkt_life |-> 36000,
      renew_life |-> 0] : pl \in {NULL, [list |-> <<2>>]}}
    \cup {[canonicalize |-> canonicalize, preauth_list |-> NULL,
            tkt_life |-> 36000, renew_life |-> 7200]}

PaOut == {<<[pa_type |-> 2, contents |-> 1]>>,
          <<[pa_type |-> 2, contents |-> 2]>>}

ExtFailures ==
    {"fast", "reply_preauth", "gak_fct", "stash_as_reply",
     "build_in_tkt_name", "krb5_timeofday", "preauth"}

ExtOk(pa_out, pa_key) ==
    [fail |-> "none", pa_out |-> pa_out, pa_key |-> pa_key, gak_key |-> "K1"]

ExtFail(f) == [fail |-> f, pa_out |-> <<>>, pa_key |-> "", gak_key |-> "K1"]

\* The KDC of a run sends any reply ("any"), or answers every request with
\* the one error of its script until it sends the good AS-REP.
ScriptedModes ==
    {"KDC_ERR_PREAUTH_REQUIRED", "KDC_ERR_WRONG_REALM",
     "KRB_ERR_RESPONSE_TOO_BIG"}

KdcModes == {"any"} \cup ScriptedModes

Exts(mode) ==
    IF mode = "any"
    THEN {ExtOk(po, pk) : po \in PaOut, pk \in {"", "K2"}}
         \cup {ExtFail(f) : f \in ExtFailures}
    ELSE {ExtOk(<<[pa_type |-> 2, contents |-> 1]>>, ""), ExtFail("preauth")}

LoopBound(mode) == IF mode = "any" THEN MaxLoopcount ELSE MaxLongLoopcount

KrbError(error, client, e_data) ==
    [kind |-> "KRB_ERROR", decodes |-> TRUE, error |-> error,
     client |-> client, e_data |-> e_data]

EData == {<<>>, <<2, 17>>}

ErrorReplies ==
    {KrbError("KDC_ERR_PREAUTH_REQUIRED", NULL, e) : e \in EData}
    \cup {KrbError("KDC_ERR_WRONG_REALM", cl, <<>>) :
            cl \in {NULL} \cup {Princ(r, <<"u">>, "KRB5_NT_PRINCIPAL") :
                                   r \in {""} \cup Realms}}
    \cup {KrbError("KDC_ERR_WRONG_REALM",
                    Princ("B", <<"u">>, "KRB5_NT_PRINCIPAL"), <<2, 17>>)}
    \cup {KrbError("KDC_ERR_C_PRINCIPAL_UNKNOWN", NULL, e) : e \in EData}
    \cup {KrbError("KRB_ERR_RESPONSE_TOO_BIG", NULL, <<>>)}
    \cup {[KrbError("KDC_ERR_PREAUTH_REQUIRED", NULL, <<>>)
              EXCEPT !.decodes = FALSE]}

\* The AS-REP a KDC holding key issues for the encoded request req at time now.
GoodAsRep(req, key, now) ==
    [kind |-> "AS_REP", decodes |-> TRUE, msg_type |-> "KRB5_AS_REP",
     client |-> req.client, padata |-> NULL, ticket_server |-> req.server,
     key |-> key,
     enc |-> [server |-> req.server, nonce |-> req.nonce,
              times |-> [authtime |-> now, starttime |-> 0,
                         endtime |-> now + 10, renew_till |-> 0],
              flags |-> {}, session |-> "S1", caddrs |-> NULL]]

AsReps(req, now) ==
    LET good == GoodAsRep(req, "K1", now)
    IN  {good,
         [good EXCEPT !.key = "K2"],
         [good EXCEPT !.enc.nonce = req.nonce + 1],
         [good EXCEPT !.enc.nonce = req.nonce - 1],
         [good EXCEPT !.client.data = <<"v">>],
         [good EXCEPT !.ticket_server.data = <<"x">>],
         [good EXCEPT !.enc.times.endtime = now - 10],
         [good EXCEPT !.msg_type = "KRB5_TGS_REP"],
         [good EXCEPT !.decodes = FALSE]}

OtherReplies == {[kind |-> "OTHER", b0 |-> 4, b1 |-> 11],
                 [kind |-> "OTHER", b0 |-> 5, b1 |-> 10]}

ScriptedReplies(mode, req, now) ==
    {GoodAsRep(req, "K1", now)}
    \cup (IF mode = "KDC_ERR_PREAUTH_REQUIRED"
          THEN {KrbError(mode, NULL, <<2, 17>>)}
          ELSE IF mode = "KDC_ERR_WRONG_REALM"
          THEN {KrbError(mode, Princ(r, <<"u">>, "KRB5_NT_PRINCIPAL"), <<>>) :
                   r \in Realms}
          ELSE {KrbError(mode, NULL, <<>>)})

KdcReplies(mode, req, now) ==
    IF mode = "any"
    THEN ErrorReplies \cup AsReps(req, now) \cup OtherReplies
    ELSE ScriptedReplies(mode, req, now)

(***************************************************************************)
(* The step API driven by a caller that feeds each reply to the request     *)
(* last emitted and stops at an error; against the any KDC it may call      *)
(* once more after COMPLETE.                                                *)
(***************************************************************************)
NoCall(c) ==
    [called |-> FALSE, in |-> EmptyData, fail |-> "none", pa_key |-> "",
     code |-> OK, out |-> EmptyData, realm |-> "", complete |-> FALSE,
     entry |-> "none", pre |-> c]

\* krb5int_init_creds_get_ext before it is called: its locals as initialised.
GetIdle ==
    [pc |-> "idle", tcp_only |-> FALSE, request |-> EmptyData, realm |-> "",
     code |-> OK]

GitIdle == [pc |-> "idle"]

\* No helper routine called directly.
NoFn == [f |-> "none"]

\* No second context: neither context of the pair created.
NoPair == [a |-> NULL, b |-> NULL]

\* Nothing handed to krb5_sendto_kdc yet.
NoWire ==
    [n |-> 0, by |-> "none", request |-> EmptyData, realm |-> "",
     tcp_only |-> FALSE]

\* The time of day at the start of a run.
ClockStart == 1000

\* The nonce block of krb5_init_creds_init: random_buf is what
\* krb5_c_random_make_octets wrote, four octets, now the time of day.
\* load_32_n reads the octets as one number, the first octet the highest;
\* the mask 0x7fffffff takes the high bit of the first octet away.
InitNonce(random_buf, fail, now) ==
    IF fail = "krb5_c_random_make_octets"
    THEN [code |-> OK, nonce |-> now]
    ELSE IF fail = "krb5_c_random_make_octets, krb5_timeofday"
    THEN [code |-> "KRB5_CONFIG_CANTOPEN", nonce |-> 0]
    ELSE [code |-> OK,
          nonce |-> (random_buf[1] % 128) * 16777216
                    + random_buf[2] * 65536 + random_buf[3] * 256
                    + random_buf[4]]

\* The nonce of the contexts: the random octets 0x80 0 0 7.
Nonces == {InitNonce(<<128, 0, 0, 7>>, "none", ClockStart).nonce}

Contexts == {[sync_kdctime |-> FALSE, clockskew |-> 300, now |-> ClockStart]}

InitStepCtx ==
    /\ kcontext \in Contexts
    /\ \E cs \in ClientSetups, sv \in Services, n \in Nonces :
          \E opt \in InitOptions(cs.canonicalize) :
             ctx = krb5_init_creds_set_service(
                       krb5_init_creds_init(cs.client, 0, opt, n), sv)
    /\ last = NoCall(ctx)
    /\ \E mode \in KdcModes :
          hist = [kdc |-> mode, complete |-> FALSE, referrals |-> 0]

InitStep ==
    /\ InitStepCtx
    /\ drv = GetIdle
    /\ git = GitIdle
    /\ wire = NoWire
    /\ fn = NoFn
    /\ pair = NoPair

\* A referral is followed when a WRONG_REALM error rewrote the client realm
\* and the same call emitted a request.
Followed(c, in, r) ==
    /\ in.kind = "KRB_ERROR" /\ in.decodes
    /\ in.error = "KDC_ERR_WRONG_REALM"
    /\ \/ "CANONICALIZE" \in c.request.kdc_options
       \/ c.request.client.type = "KRB5_NT_ENTERPRISE_PRINCIPAL"
    /\ r.code = OK

\* The key krb5_do_preauth gave for the reply in: "" when it gave none or
\* when init_creds_step_reply did not come to call it.
ReplyPaKey(c, in, ext) ==
    LET val == init_creds_validate_reply(c, in)
    IN  IF /\ in # EmptyData /\ val.code = OK /\ val.ctx.err_reply = NULL
           /\ c.loopcount < MAX_IN_TKT_LOOPS
        THEN ext.pa_key
        ELSE ""

\* The state after a step call on in, under ext, that returned r.
Called(in, ext, r) ==
    /\ ctx' = r.ctx
    /\ last' = [called |-> TRUE, in |-> in, fail |-> ext.fail,
                 pa_key |-> ReplyPaKey(ctx, in, ext), code |-> r.code, out |-> r.out, realm |-> r.realm,
                 complete |-> r.complete, entry |-> r.entry, pre |-> ctx]
    /\ hist' = [hist EXCEPT
                    !.complete = @ \/ r.complete,
                    !.referrals = @ + (IF Followed(ctx, in, r) THEN 1 ELSE 0)]
    /\ UNCHANGED kcontext

Call(in, ext) ==
    /\ ctx.loopcount < LoopBound(hist.kdc)
    /\ Called(in, ext, krb5_init_creds_step(kcontext, ctx, in, ext))

StepInitial ==
    /\ ~last.called
    /\ \E ext \in Exts(hist.kdc) : Call(EmptyData, ext)
    /\ UNCHANGED <<drv, git, wire, fn, pair>>

StepReply ==
    /\ last.called /\ last.code = OK /\ ~hist.complete
    /\ \E in \in KdcReplies(hist.kdc, ctx.encoded_previous_request,
                              kcontext.now),
          ext \in Exts(hist.kdc) : Call(in, ext)
    /\ UNCHANGED <<drv, git, wire, fn, pair>>

StepAfterComplete ==
    /\ last.called /\ last.code = OK /\ last.complete
    /\ last.pre.cred = EmptyCreds
    /\ hist.kdc = "any"
    /\ \E in \in {EmptyData}
                  \cup KdcReplies(hist.kdc, ctx.encoded_previous_request,
                                  kcontext.now),
          ext \in Exts(hist.kdc) : Call(in, ext)
    /\ UNCHANGED <<drv, git, wire, fn, pair>>

NextStep == StepInitial \/ StepReply \/ StepAfterComplete

SpecStep == InitStep /\ [][NextStep]_vars

(***************************************************************************)
(* krb5int_init_creds_get_ext: the driver of the step API.  GetEnter runs   *)
(* from the entry to the first call of krb5_sendto_kdc or to the return,    *)
(* GetSendto from the return of krb5_sendto_kdc to its next call or to the  *)
(* return of the driver.                                                    *)
(***************************************************************************)
InitGet ==
    /\ InitStepCtx
    /\ drv = [GetIdle EXCEPT !.pc = "call"]
    /\ git = GitIdle
    /\ wire = NoWire
    /\ fn = NoFn
    /\ pair = NoPair

\* The transmission krb5_sendto_kdc(request, realm, tcp_only) by a driver.
Transmit(by, request, realm, tcp_only) ==
    wire' = [n |-> wire.n + 1, by |-> by, request |-> request,
             realm |-> realm, tcp_only |-> tcp_only]

GetReturn(code) == [GetIdle EXCEPT !.pc = "done", !.code = code]

\* The locals at the call krb5_sendto_kdc(request, realm, tcp_only).
GetAtSendto(r, tcp_only) ==
    [GetIdle EXCEPT !.pc = "sendto", !.tcp_only = tcp_only, !.code = r.code,
                    !.request = r.out, !.realm = r.realm]

\* The loop body after krb5_init_creds_step, called on in, returned r.
GetStepped(in, ext, r) ==
    /\ Called(in, ext, r)
    /\ IF r.code = "KRB5KRB_ERR_RESPONSE_TOO_BIG" /\ ~drv.tcp_only
       THEN /\ drv' = GetAtSendto(r, TRUE)
            /\ Transmit("get", r.out, r.realm, TRUE)
       ELSE IF r.code # OK \/ r.complete
       THEN /\ drv' = GetReturn(r.code)
            /\ UNCHANGED wire
       ELSE /\ drv' = GetAtSendto(r, drv.tcp_only)
            /\ Transmit("get", r.out, r.realm, drv.tcp_only)

GetEnter ==
    /\ drv.pc = "call"
    /\ IF ctx.reply # NULL
       THEN /\ drv' = GetReturn(OK)
            /\ UNCHANGED <<kcontext, ctx, last, hist, wire>>
       ELSE /\ ctx.loopcount < LoopBound(hist.kdc)
            /\ \E ext \in Exts(hist.kdc) :
                  GetStepped(EmptyData, ext,
                      krb5_init_creds_step(kcontext, ctx, EmptyData, ext))
    /\ UNCHANGED <<git, fn, pair>>

\* A further call of the driver on a context it has completed.
GetAgain ==
    /\ drv.pc = "done" /\ drv.code = OK
    /\ drv' = [GetIdle EXCEPT !.pc = "call"]
    /\ UNCHANGED <<kcontext, ctx, last, hist, git, wire, fn, pair>>

\* A further call of the driver on a context that holds the AS-REP its last
\* step failed on.
GetAgainFailed ==
    /\ drv.pc = "done" /\ drv.code # OK /\ ctx.reply # NULL
    /\ drv' = [GetIdle EXCEPT !.pc = "call"]
    /\ UNCHANGED <<kcontext, ctx, last, hist, git, wire, fn, pair>>

GetSendto ==
    /\ drv.pc = "sendto"
    /\ \/ /\ drv' = GetReturn("KRB5_KDC_UNREACH")
          /\ UNCHANGED <<kcontext, ctx, last, hist, wire>>
       \/ /\ ctx.loopcount < LoopBound(hist.kdc)
          /\ \E in \in KdcReplies(hist.kdc, drv.request, kcontext.now),
                ext \in Exts(hist.kdc) :
                GetStepped(in, ext,
                    krb5_init_creds_step(kcontext, ctx, in, ext))
    /\ UNCHANGED <<git, fn, pair>>

NextGet == GetEnter \/ GetAgain \/ GetSendto

SpecGet == InitGet /\ [][NextGet]_vars

\* The driver called again whatever its last call returned.
SpecGetAgain == InitGet /\ [][NextGet \/ GetAgainFailed]_vars

(***************************************************************************)
(* krb5_get_in_tkt: the all-in-one driver.  g is the record of its          *)
(* arguments and locals; ext is the outcome of the external routines during *)
(* one step: ext.fail names the routine that fails, ext.pa_out is the       *)
(* padata krb5_obtain_padata builds, ext.pa_key the key krb5_process_padata *)
(* derives ("": none), ext.do_more its do_more, ext.gak_key the key         *)
(* key_proc returns.                                                        *)
(***************************************************************************)
\* The call with its arguments, before the first statement.
GitCall(creds, options, ptypes, ccache) ==
    [pc |-> "call", creds |-> creds, options |-> options, ptypes |-> ptypes,
     ccache |-> ccache,
     canon_flag |-> FALSE, is_tgt_req |-> FALSE,
     request |-> [kdc_options |-> {}, client |-> NULL, server |-> NULL,
                  from |-> 0, till |-> 0, rtime |-> 0, nonce |-> 0,
                  padata |-> <<>>],
     preauth_to_use |-> NULL, loopcount |-> 0, referral_count |-> 0,
     err_reply |-> NULL, as_reply |-> NULL, decrypt_key |-> "", time_now |-> 0,
     tcp_only |-> FALSE, retval |-> OK]

\* goto cleanup with retval.
GitCleanup(g, retval) == [g EXCEPT !.pc = "done", !.retval = retval]

\* The setup without the comparison of the realms.
GitSetup_unchecked(g) ==
    [g EXCEPT
        !.pc = "top",
        !.canon_flag = \/ "CANONICALIZE" \in g.options
                       \/ g.creds.client.type = "KRB5_NT_ENTERPRISE_PRINCIPAL",
        !.request = [kdc_options |-> g.options,
                     client |-> g.creds.client,
                     server |-> g.creds.server,
                     from |-> g.creds.times.starttime,
                     till |-> g.creds.times.endtime,
                     rtime |-> g.creds.times.renew_till,
                     nonce |-> 0, padata |-> <<>>],
        !.preauth_to_use = IF g.ptypes = NULL THEN NULL
                           ELSE make_preauth_list(g.ptypes.list),
        !.is_tgt_req = tgt_is_local_realm(g.creds.client, g.creds.server)]

\* From the entry to the head of the loop.
GitSetup(g) ==
    IF ~krb5_realm_compare(g.creds.client, g.creds.server)
    THEN GitCleanup(g, "KRB5_IN_TKT_REALM_MISMATCH")
    ELSE [g EXCEPT
             !.pc = "top",
             !.canon_flag = \/ "CANONICALIZE" \in g.options
                            \/ g.creds.client.type =
                                   "KRB5_NT_ENTERPRISE_PRINCIPAL",
             !.request = [kdc_options |-> g.options,
                          client |-> g.creds.client,
                          server |-> g.creds.server,
                          from |-> g.creds.times.starttime,
                          till |-> g.creds.times.endtime,
                          rtime |-> g.creds.times.renew_till,
                          nonce |-> 0, padata |-> <<>>],
             !.preauth_to_use = IF g.ptypes = NULL THEN NULL
                                ELSE make_preauth_list(g.ptypes.list),
             !.is_tgt_req = tgt_is_local_realm(g.creds.client,
                                               g.creds.server)]

\* krb5_obtain_padata: builds request.padata from the list it is given.
krb5_obtain_padata(preauth_to_use, request, ext) ==
    IF preauth_to_use = NULL THEN request
    ELSE [request EXCEPT !.padata = ext.pa_out]

\* The head of the loop up to the call of send_as_request.
GitLoopTop(context, g, ext) ==
    IF g.loopcount > MAX_IN_TKT_LOOPS
    THEN GitCleanup([g EXCEPT !.loopcount = @ + 1], "KRB5_GET_IN_TKT_LOOP")
    ELSE IF ext.fail = "krb5_obtain_padata"
    THEN GitCleanup([g EXCEPT !.loopcount = @ + 1], "KRB5_PREAUTH_FAILED")
    ELSE IF ext.fail = "krb5_timeofday"
    THEN GitCleanup([g EXCEPT !.loopcount = @ + 1,
                              !.request = krb5_obtain_padata(
                                  g.preauth_to_use, g.request, ext),
                              !.preauth_to_use = NULL, !.err_reply = NULL,
                              !.as_reply = NULL],
                    "KRB5_CONFIG_CANTOPEN")
    ELSE IF ext.fail = "encode_krb5_as_req"
    THEN GitCleanup([g EXCEPT !.loopcount = @ + 1,
                              !.request = [krb5_obtain_padata(
                                  g.preauth_to_use, g.request, ext)
                                  EXCEPT !.nonce = context.now],
                              !.preauth_to_use = NULL, !.err_reply = NULL,
                              !.as_reply = NULL,
                              !.time_now = context.now],
                    "ENOMEM")
    ELSE [g EXCEPT !.pc = "sendto", !.loopcount = @ + 1,
                   !.request = [krb5_obtain_padata(
                       g.preauth_to_use, g.request, ext)
                       EXCEPT !.nonce = context.now],
                   !.preauth_to_use = NULL, !.err_reply = NULL,
                   !.as_reply = NULL, !.time_now = context.now,
                   !.tcp_only = FALSE]

\* The first byte of an encoded AS-REQ: the tag [APPLICATION 10].
FirstByte(packet) == 106

\* send_as_request sending again on RESPONSE_TOO_BIG whatever tcp_only is.
send_as_request_tcp_only_unchecked(packet, reply, tcp_only) ==
    LET Result(retval, err_reply, as_reply, again) ==
            [retval |-> retval, err_reply |-> err_reply,
             as_reply |-> as_reply, again |-> again]
        t_switch == reply.b1 - (reply.b1 % 2)
    IN  IF reply.kind = "FAIL" THEN Result(reply.code, NULL, NULL, FALSE)
        ELSE IF reply.kind = "KRB_ERROR"
        THEN IF ~reply.decodes
             THEN Result("ASN1_PARSE_ERROR", NULL, NULL, FALSE)
             ELSE IF reply.error = "KRB_ERR_RESPONSE_TOO_BIG"
             THEN Result(OK, NULL, NULL, TRUE)
             ELSE Result(OK, [error |-> reply.error, client |-> reply.client,
                              e_data |-> reply.e_data], NULL, FALSE)
        ELSE IF reply.kind # "AS_REP"
        THEN IF /\ t_switch = 10
                /\ (reply.b0 = 4 \/ reply.b0 = FirstByte(packet))
             THEN Result("KRB5KRB_AP_ERR_V4_REPLY", NULL, NULL, FALSE)
             ELSE Result("KRB5KRB_AP_ERR_MSG_TYPE", NULL, NULL, FALSE)
        ELSE IF ~reply.decodes
        THEN Result("ASN1_PARSE_ERROR", NULL, NULL, FALSE)
        ELSE IF reply.msg_type # "KRB5_AS_REP"
        THEN Result("KRB5KRB_AP_ERR_MSG_TYPE", NULL, NULL, FALSE)
        ELSE Result(OK, NULL, decode_krb5_as_rep(reply), FALSE)

\* send_as_request after krb5_sendto_kdc returned reply (kind "FAIL": it
\* failed with reply.code).  again tells that the packet is sent again,
\* TCP only.
send_as_request(packet, reply, tcp_only) ==
    LET Result(retval, err_reply, as_reply, again) ==
            [retval |-> retval, err_reply |-> err_reply,
             as_reply |-> as_reply, again |-> again]
        t_switch == reply.b1 - (reply.b1 % 2)
    IN  IF reply.kind = "FAIL" THEN Result(reply.code, NULL, NULL, FALSE)
        ELSE IF reply.kind = "KRB_ERROR"
        THEN IF ~reply.decodes
             THEN Result("ASN1_PARSE_ERROR", NULL, NULL, FALSE)
             ELSE IF reply.error = "KRB_ERR_RESPONSE_TOO_BIG" /\ ~tcp_only
             THEN Result(OK, NULL, NULL, TRUE)
             ELSE Result(OK, [error |-> reply.error, client |-> reply.client,
                              e_data |-> reply.e_data], NULL, FALSE)
        ELSE IF reply.kind # "AS_REP"
        THEN IF /\ t_switch = 10
                /\ (reply.b0 = 4 \/ reply.b0 = FirstByte(packet))
             THEN Result("KRB5KRB_AP_ERR_V4_REPLY", NULL, NULL, FALSE)
             ELSE Result("KRB5KRB_AP_ERR_MSG_TYPE", NULL, NULL, FALSE)
        ELSE IF ~reply.decodes
        THEN Result("ASN1_PARSE_ERROR", NULL, NULL, FALSE)
        ELSE IF reply.msg_type # "KRB5_AS_REP"
        THEN Result("KRB5KRB_AP_ERR_MSG_TYPE", NULL, NULL, FALSE)
        ELSE Result(OK, NULL, decode_krb5_as_rep(reply), FALSE)

\* The test of the referral branch without the hop count.
ReferralRefused_uncounted(referral_count, err_reply) ==
    \/ err_reply.client = NULL
    \/ err_reply.client.realm = ""

\* The referral branch: the test that ends the call.
ReferralRefused(referral_count, err_reply) ==
    \/ referral_count > KRB5_REFERRAL_MAXHOPS
    \/ err_reply.client = NULL
    \/ err_reply.client.realm = ""

\* The KRB-ERROR branch taking PREAUTH_REQUIRED without a test of the e-data.
GitErrReply_hints_unchecked(g, err_reply, ext) ==
    IF err_reply.error = "KDC_ERR_PREAUTH_REQUIRED"
    THEN IF ext.fail = "decode_krb5_padata_sequence"
         THEN GitCleanup(g, "ASN1_PARSE_ERROR")
         ELSE [g EXCEPT !.pc = "top",
                        !.preauth_to_use = sort_krb5_padata_sequence(
                                               [list |-> err_reply.e_data])]
    ELSE IF g.canon_flag /\ err_reply.error = "KDC_ERR_WRONG_REALM"
    THEN IF ReferralRefused(g.referral_count + 1, err_reply)
         THEN GitCleanup([g EXCEPT !.referral_count = @ + 1],
                         "KRB5KDC_ERR_WRONG_REALM")
         ELSE [g EXCEPT
                  !.pc = "top",
                  !.referral_count = @ + 1,
                  !.request.client = [g.creds.client EXCEPT
                                         !.realm = err_reply.client.realm],
                  !.request.server = rewrite_server_realm(
                      g.creds.server, err_reply.client.realm, g.is_tgt_req)]
    ELSE GitCleanup(g, ErrPlusBase(err_reply.error))

\* The KRB-ERROR branch of the loop body.
GitErrReply(g, err_reply, ext) ==
    IF err_reply.error = "KDC_ERR_PREAUTH_REQUIRED" /\ err_reply.e_data # <<>>
    THEN IF ext.fail = "decode_krb5_padata_sequence"
         THEN GitCleanup(g, "ASN1_PARSE_ERROR")
         ELSE [g EXCEPT !.pc = "top",
                        !.preauth_to_use = sort_krb5_padata_sequence(
                                               [list |-> err_reply.e_data])]
    ELSE IF g.canon_flag /\ err_reply.error = "KDC_ERR_WRONG_REALM"
    THEN IF ReferralRefused(g.referral_count + 1, err_reply)
         THEN GitCleanup([g EXCEPT !.referral_count = @ + 1],
                         "KRB5KDC_ERR_WRONG_REALM")
         ELSE [g EXCEPT
                  !.pc = "top",
                  !.referral_count = @ + 1,
                  !.request.client = [g.creds.client EXCEPT
                                         !.realm = err_reply.client.realm],
                  !.request.server = rewrite_server_realm(
                      g.creds.server, err_reply.client.realm, g.is_tgt_req)]
    ELSE GitCleanup(g, ErrPlusBase(err_reply.error))

\* After the loop: st is the result of stash_as_reply.
GitStashed(g, st) ==
    GitCleanup([g EXCEPT !.creds = st.creds, !.ccache = st.ccache], st.code)

\* The statements after verify_as_reply without the test of its result.
GitVerified_unchecked(g, v, ext) ==
    GitStashed([g EXCEPT !.as_reply = v.reply],
               stash_as_reply(v.reply, g.creds, g.ccache, ext.fail))

\* v is the result of verify_as_reply.
GitVerified(g, v, ext) ==
    IF v.code # OK THEN GitCleanup([g EXCEPT !.as_reply = v.reply], v.code)
    ELSE GitStashed([g EXCEPT !.as_reply = v.reply],
                    stash_as_reply(v.reply, g.creds, g.ccache, ext.fail))

\* d is the result of decrypt_as_reply.
GitDecrypted(context, g, d, ext) ==
    IF d.code # OK THEN GitCleanup(g, d.code)
    ELSE GitVerified(g, verify_as_reply(context, g.time_now, g.request,
                                        d.reply), ext)

\* The AS-REP branch of the loop body and the statements after the loop.
GitAsReply(context, g, ext) ==
    IF ext.fail = "krb5_process_padata"
    THEN GitCleanup(g, "KRB5_PREAUTH_FAILED")
    ELSE IF ext.do_more
    THEN [g EXCEPT !.pc = "top",
                   !.decrypt_key = IF ext.pa_key # "" THEN ext.pa_key ELSE @]
    ELSE IF ext.pa_key = "" /\ g.decrypt_key = "" /\ ext.fail = "key_proc"
    THEN GitCleanup(g, "KRB5_LIBOS_PWDINTR")
    ELSE IF ext.pa_key # ""
    THEN GitDecrypted(context, [g EXCEPT !.decrypt_key = ext.pa_key],
                      decrypt_as_reply(g.as_reply, ext.pa_key), ext)
    ELSE IF g.decrypt_key # ""
    THEN GitDecrypted(context, g,
                      decrypt_as_reply(g.as_reply, g.decrypt_key), ext)
    ELSE GitDecrypted(context, g,
                      decrypt_as_reply(g.as_reply, ext.gak_key), ext)

\* The loop body after send_as_request returned sr.
GitLoopBody(context, g, sr, ext) ==
    IF sr.again THEN [g EXCEPT !.tcp_only = TRUE]
    ELSE IF sr.retval # OK THEN GitCleanup(g, sr.retval)
    ELSE IF sr.err_reply # NULL
    THEN GitErrReply([g EXCEPT !.err_reply = sr.err_reply], sr.err_reply, ext)
    ELSE IF sr.as_reply = NULL THEN GitCleanup(g, "KRB5KRB_AP_ERR_MSG_TYPE")
    ELSE GitAsReply(context, [g EXCEPT !.as_reply = sr.as_reply], ext)

\* Inputs of krb5_get_in_tkt.
GitServers ==
    {TgsPrinc("A"), TgsPrinc("B"),
     Princ("A", <<"kadmin", "changepw">>, "KRB5_NT_PRINCIPAL")}

GitCreds ==
    {[EmptyCreds EXCEPT !.client = cl, !.server = sv] :
        cl \in Clients, sv \in GitServers}

GitOptions == {{}, {"CANONICALIZE"}}

GitPtypes == {NULL, [list |-> <<2>>]}

\* No credential cache, or an empty one.
GitCcaches == {NULL, [stored |-> <<>>]}

GitExtFailures ==
    {"krb5_obtain_padata", "krb5_timeofday", "encode_krb5_as_req",
     "decode_krb5_padata_sequence", "krb5_process_padata", "key_proc",
     "stash_as_reply", "krb5_cc_store_cred"}

GitExt(fail, pa_out, pa_key, do_more) ==
    [fail |-> fail, pa_out |-> pa_out, pa_key |-> pa_key,
     do_more |-> do_more, gak_key |-> "K1"]

GitExts(mode) ==
    IF mode = "any"
    THEN {GitExt("none", po, pk, dm) :
             po \in PaOut, pk \in {"", "K2"}, dm \in BOOLEAN}
         \cup {GitExt(f, <<>>, "", FALSE) : f \in GitExtFailures}
    ELSE {GitExt("none", <<[pa_type |-> 2, contents |-> 1]>>, "", FALSE)}

\* krb5_sendto_kdc failed.
SendFail == [kind |-> "FAIL", code |-> "KRB5_KDC_UNREACH"]

InitGit ==
    /\ kcontext \in Contexts
    /\ ctx = NULL
    /\ last = NoCall(NULL)
    /\ \E mode \in KdcModes :
          hist = [kdc |-> mode, complete |-> FALSE, referrals |-> 0]
    /\ drv = GetIdle
    /\ \E creds \in GitCreds, options \in GitOptions, ptypes \in GitPtypes,
          ccache \in GitCcaches :
          git = GitCall(creds, options, ptypes, ccache)
    /\ wire = NoWire
    /\ fn = NoFn
    /\ pair = NoPair

GitEnter ==
    /\ git.pc = "call"
    /\ git' = GitSetup(git)
    /\ UNCHANGED <<kcontext, ctx, last, hist, drv, wire, fn, pair>>

\* The state after the head of the loop left the locals g.
GitTopped(g) ==
    /\ git' = g
    /\ IF g.pc = "sendto"
       THEN Transmit("git", encode_krb5_as_req(g.request),
                     g.request.client.realm, FALSE)
       ELSE UNCHANGED wire

\* The clock when krb5_timeofday reads it: it may have advanced since the
\* last reading.
Clock(mode, context) ==
    IF mode = "any"
    THEN {[context EXCEPT !.now = t] :
             t \in {u \in {context.now, context.now + 1} :
                       u <= ClockStart + MaxTick}}
    ELSE {context}

GitTop ==
    /\ git.pc = "top"
    /\ git.loopcount < LoopBound(hist.kdc)
    /\ \E context \in Clock(hist.kdc, kcontext), ext \in GitExts(hist.kdc) :
          /\ kcontext' = context
          /\ GitTopped(GitLoopTop(context, git, ext))
    /\ UNCHANGED <<ctx, last, hist, drv, fn, pair>>

\* The state after the loop body left the locals g on the reply in.
GitReplied(in, g) ==
    /\ git' = g
    /\ IF g.pc = "sendto"
       THEN Transmit("git", wire.request, wire.realm, TRUE)
       ELSE UNCHANGED wire
    /\ hist' = [hist EXCEPT
                    !.complete = @ \/ (g.pc = "done" /\ g.retval = OK),
                    !.referrals = @ + (IF /\ in.kind = "KRB_ERROR"
                                          /\ in.decodes
                                          /\ in.error = "KDC_ERR_WRONG_REALM"
                                          /\ git.canon_flag
                                          /\ g.pc = "top"
                                       THEN 1 ELSE 0)]

GitSendto ==
    /\ git.pc = "sendto"
    /\ \E in \in {SendFail}
                  \cup KdcReplies(hist.kdc, wire.request, kcontext.now),
          ext \in GitExts(hist.kdc) :
          GitReplied(in, GitLoopBody(kcontext, git,
                         send_as_request(wire.request, in, git.tcp_only),
                         ext))
    /\ UNCHANGED <<kcontext, ctx, last, drv, fn, pair>>

NextGit == GitEnter \/ GitTop \/ GitSendto

SpecGit == InitGit /\ [][NextGit]_vars

(***************************************************************************)
(* Both drivers: a run is one call of krb5int_init_creds_get_ext or one of  *)
(* krb5_get_in_tkt.                                                         *)
(***************************************************************************)
Init == InitGet \/ InitGit

Next == NextGet \/ NextGit

Spec == Init /\ [][Next]_vars

(***************************************************************************)
(* verify_as_reply called directly on a request and a decrypted reply.      *)
(***************************************************************************)
VerifyContexts ==
    {[sync_kdctime |-> sync, clockskew |-> 300, now |-> ClockStart] :
        sync \in BOOLEAN}

VerifyServers ==
    {TgsPrinc("A"), Princ("A", <<"kadmin", "changepw">>, "KRB5_NT_PRINCIPAL")}

VerifyRequests ==
    {[kdc_options |-> o, client |-> cl, server |-> sv, from |-> from,
      till |-> till, rtime |-> rtime, nonce |-> 7, padata |-> <<>>] :
        o \in {{}, {"CANONICALIZE"}, {"POSTDATED"}, {"RENEWABLE"},
               {"RENEWABLE_OK"}, {"RENEWABLE", "RENEWABLE_OK"}},
        cl \in Clients, sv \in VerifyServers,
        from \in {0, 1005}, till \in {0, 1010}, rtime \in {0, 1020}}

\* Decrypted replies: the server of the ticket is the server of the
\* encrypted part or krbtgt/B@A.
VerifyReplies ==
    {[client |-> Princ("A", <<d>>, "KRB5_NT_PRINCIPAL"), padata |-> NULL,
      ticket_server |-> IF same THEN sv
                        ELSE Princ("A", <<KRB5_TGS_NAME, "B">>,
                                   "KRB5_NT_PRINCIPAL"),
      key |-> "K1", enc |-> NULL,
      enc_part2 |-> [server |-> sv, nonce |-> n,
                     times |-> [authtime |-> 1005, starttime |-> st,
                                endtime |-> et, renew_till |-> rt],
                     flags |-> fl, session |-> "S1", caddrs |-> NULL]] :
        d \in {"u", "v"},
        sv \in VerifyServers \cup {Princ("A", <<KRB5_TGS_NAME, "B">>,
                                         "KRB5_NT_PRINCIPAL")},
        same \in BOOLEAN,
        n \in {7, 8}, st \in {0, 699, 1300, 1301}, et \in {1010, 1011},
        rt \in {1011, 1021}, fl \in {{}, {"RENEWABLE"}}}

InitVerify ==
    /\ kcontext \in VerifyContexts
    /\ ctx = NULL
    /\ last = NoCall(NULL)
    /\ hist = [kdc |-> "any", complete |-> FALSE, referrals |-> 0]
    /\ drv = GetIdle
    /\ git = GitIdle
    /\ wire = NoWire
    /\ fn = NoFn
    /\ pair = NoPair

\* The call verify_as_reply(context, time_now, request, as_reply) that
\* returned v; krb5_set_real_time sets the time of day of the context.
Verified(time_now, request, as_reply, v) ==
    /\ fn' = [f |-> "verify_as_reply", context |-> kcontext,
              time_now |-> time_now, request |-> request,
              as_reply |-> as_reply, code |-> v.code, reply |-> v.reply]
    /\ kcontext' = IF v.set_time
                   THEN [kcontext EXCEPT
                            !.now = v.reply.enc_part2.times.authtime]
                   ELSE kcontext

VerifyCall ==
    /\ fn.f = "none"
    /\ \E request \in VerifyRequests, as_reply \in VerifyReplies :
          Verified(kcontext.now, request, as_reply,
                   verify_as_reply(kcontext, kcontext.now, request, as_reply))
    /\ UNCHANGED <<ctx, last, hist, drv, git, wire, pair>>

SpecVerify == InitVerify /\ [][VerifyCall]_vars

(***************************************************************************)
(* Two step API contexts, a and b, created on one library context and       *)
(* driven by interleaved calls.  The pre-auth request state belongs to the  *)
(* library context: preauth.request tells whether the request contexts of   *)
(* the plugins are initialised, preauth.use_count counts the uses of the    *)
(* plugins since the counts were cleared.  pair.solo holds, for each        *)
(* context, the library context as the calls on that context alone leave    *)
(* it; pair.last is the most recent call.                                   *)
(***************************************************************************)
krb5_preauth_request_context_init(context) ==
    [context EXCEPT !.preauth.request = "init"]

krb5_clear_preauth_context_use_counts(context) ==
    [context EXCEPT !.preauth.use_count = 0]

krb5_preauth_request_context_fini(context) ==
    [context EXCEPT !.preauth.request = "fini"]

\* krb5_do_preauth and krb5_do_preauth_tryagain count a use of a plugin.
PreauthUsed(context) == [context EXCEPT !.preauth.use_count = @ + 1]

\* The library context after krb5_init_creds_step on c and in returned r.
\* On an AS-REP within the loop limit the use counts are cleared and the
\* plugins run over the padata of the reply; completion finalises the request
\* state; a request built by a pre-auth entry point counts a use.
StepContext(context, c, in, ext, r) ==
    LET val == init_creds_validate_reply(c, in)
        as_rep == /\ in.kind # "EMPTY"
                  /\ val.code = OK
                  /\ val.ctx.err_reply = NULL
                  /\ c.loopcount < MAX_IN_TKT_LOOPS
        k1 == IF as_rep THEN krb5_clear_preauth_context_use_counts(context)
              ELSE context
        k2 == IF as_rep /\ ext.fail \notin {"fast", "reply_preauth"}
              THEN PreauthUsed(k1) ELSE k1
        k3 == IF r.complete THEN krb5_preauth_request_context_fini(k2)
              ELSE k2
    IN  IF r.entry # "none" THEN PreauthUsed(k3) ELSE k3

PairContexts ==
    {[sync_kdctime |-> FALSE, clockskew |-> 300, now |-> ClockStart,
      preauth |-> [request |-> "none", use_count |-> 0]]}

InitPair ==
    /\ kcontext \in PairContexts
    /\ ctx = NULL
    /\ last = NoCall(NULL)
    /\ hist = [kdc |-> "any", complete |-> FALSE, referrals |-> 0]
    /\ drv = GetIdle
    /\ git = GitIdle
    /\ wire = NoWire
    /\ fn = NoFn
    /\ pair = [a |-> NULL, b |-> NULL,
               open |-> [w \in {"a", "b"} |-> FALSE],
               solo |-> [w \in {"a", "b"} |-> kcontext],
               last |-> [by |-> "none", op |-> "none", found |-> NULL,
                         alone |-> NULL, code |-> OK, out |-> EmptyData,
                         complete |-> FALSE]]

\* krb5_init_creds_init creates context w, with or without a pre-auth list.
PairInit(w) ==
    /\ pair[w] = NULL
    /\ \E pl \in {NULL, [list |-> <<2>>]} :
          pair' = [pair EXCEPT
              ![w] = krb5_init_creds_init(
                         Princ("A", <<"u">>, "KRB5_NT_PRINCIPAL"), 0,
                         [canonicalize |-> FALSE, preauth_list |-> pl,
                          tkt_life |-> 36000, renew_life |-> 0], 7),
              !.open[w] = TRUE,
              !.solo[w] = krb5_preauth_request_context_init(@),
              !.last = [by |-> w, op |-> "krb5_init_creds_init",
                        found |-> kcontext, alone |-> pair.solo[w],
                        code |-> OK, out |-> EmptyData, complete |-> FALSE]]
    /\ kcontext' = krb5_preauth_request_context_init(kcontext)
    /\ UNCHANGED <<ctx, last, hist, drv, git, wire, fn>>

\* The state after krb5_init_creds_step on context w and in returned r.
PairStepped(w, in, ext, r) ==
    /\ pair' = [pair EXCEPT
           ![w] = r.ctx,
           !.open[w] = r.code = OK /\ ~r.complete,
           !.solo[w] = StepContext(@, pair[w], in, ext, r),
           !.last = [by |-> w, op |-> "krb5_init_creds_step",
                     found |-> kcontext, alone |-> pair.solo[w],
                     code |-> r.code, out |-> r.out,
                     complete |-> r.complete]]
    /\ kcontext' = StepContext(kcontext, pair[w], in, ext, r)

\* krb5_init_creds_step on context w: the first call with an empty in, a
\* later one with a reply to the request w emitted last.
PairStep(w) ==
    /\ pair[w] # NULL /\ pair.open[w]
    /\ pair[w].loopcount < MaxLoopcount
    /\ \E ext \in {ExtOk(<<[pa_type |-> 2, contents |-> 1]>>, ""),
                   ExtFail("preauth")},
          in \in IF pair[w].loopcount = 0 THEN {EmptyData}
                 ELSE {GoodAsRep(pair[w].encoded_previous_request, "K1",
                                 kcontext.now),
                       KrbError("KDC_ERR_PREAUTH_REQUIRED", NULL, <<2, 17>>),
                       KrbError("KDC_ERR_C_PRINCIPAL_UNKNOWN", NULL, <<>>)} :
          PairStepped(w, in, ext,
                      krb5_init_creds_step(kcontext, pair[w], in, ext))
    /\ UNCHANGED <<ctx, last, hist, drv, git, wire, fn>>

NextPair == \E w \in {"a", "b"} : PairInit(w) \/ PairStep(w)

SpecPair == InitPair /\ [][NextPair]_vars

(***************************************************************************)
(* krb5_init_creds_free on a context of the step API, after any step call   *)
(* or from the cleanup of a failed krb5_init_creds_init.  A buffer is the   *)
(* sequence of its bytes; the result is the list of the secret buffers      *)
(* released, each with the bytes it held when it was released.              *)
(***************************************************************************)
\* zap: overwrite the bytes with zeros.
zap(data) == [i \in 1..Len(data) |-> 0]

\* krb5_free_data_contents releases the bytes as they are.
krb5_free_data_contents(buffer, data) == [buffer |-> buffer, bytes |-> data]

\* krb5_free_keyblock_contents and krb5_free_cred_contents overwrite the
\* contents of the key with zeros and release them.
krb5_free_keyblock_contents(buffer, key) ==
    [buffer |-> buffer, bytes |-> zap(KeyContents(key))]

\* krb5_init_creds_free without the zap of the password.
krb5_init_creds_free_unzapped(c, password) ==
    IF c = NULL THEN <<>>
    ELSE <<krb5_free_data_contents("password", password),
           krb5_free_keyblock_contents("cred.keyblock", c.cred.keyblock),
           krb5_free_keyblock_contents("as_key", c.as_key)>>

\* password is the password the caller has set on the context.
krb5_init_creds_free(c, password) ==
    IF c = NULL THEN <<>>
    ELSE <<krb5_free_data_contents("password", zap(password)),
           krb5_free_keyblock_contents("cred.keyblock", c.cred.keyblock),
           krb5_free_keyblock_contents("as_key", c.as_key)>>

\* The contexts freed ask for the TGT of the client realm.
InitFree ==
    /\ InitStep
    /\ hist.kdc = "any"
    /\ ctx.in_tkt_service = NULL
    /\ ctx.renew_life = 0

\* krb5_init_creds_free on the context, whatever the last call returned.
Free ==
    /\ fn = NoFn
    /\ \E password \in {<<>>, <<112, 119>>} :
          fn' = [f |-> "krb5_init_creds_free", ctx |-> ctx,
                 password |-> password,
                 released |-> krb5_init_creds_free(ctx, password)]
    /\ ctx' = NULL
    /\ UNCHANGED <<kcontext, last, hist, drv, git, wire, pair>>

\* krb5_init_creds_init fails: its cleanup frees the context, which is NULL
\* when its allocation failed and holds no password yet.
FreeFailedInit ==
    /\ fn = NoFn /\ ~last.called
    /\ \E c \in {NULL, ctx} :
          fn' = [f |-> "krb5_init_creds_init", ctx |-> c, password |-> <<>>,
                 released |-> krb5_init_creds_free(c, <<>>)]
    /\ ctx' = NULL
    /\ UNCHANGED <<kcontext, last, hist, drv, git, wire, pair>>

\* A step call on a context not yet freed, or its destruction.
NextFree == (fn = NoFn /\ NextStep) \/ Free \/ FreeFailedInit

SpecFree == InitFree /\ [][NextFree]_vars

(***************************************************************************)
(* The addresses block of krb5_init_creds_init and the libdefaults lookup.  *)
(* A profile gives the value of the option in the stanza of the realm and   *)
(* in [libdefaults], each NULL when not configured or [v |-> the string];   *)
(* values are lower case, the comparison being case blind.  An address list *)
(* is NULL or [list |-> the addresses].                                     *)
(***************************************************************************)
_krb5_conf_boolean(s) ==
    IF s \in {"y", "yes", "true", "t", "1", "on"} THEN 1
    ELSE IF s \in {"n", "no", "false", "nil", "0", "off"} THEN 0
    ELSE 0

\* fail names the routine that fails ("none": all succeed).
krb5_libdefault_string(profile, fail) ==
    IF profile.realm # NULL
    THEN IF fail = "strdup" THEN [retval |-> "ENOMEM", value |-> ""]
         ELSE [retval |-> OK, value |-> profile.realm.v]
    ELSE IF profile.libdefaults # NULL
    THEN IF fail = "strdup" THEN [retval |-> "ENOMEM", value |-> ""]
         ELSE [retval |-> OK, value |-> profile.libdefaults.v]
    ELSE [retval |-> "ENOENT", value |-> ""]

\* ret_value is left unset (-1) when the lookup fails.
krb5_libdefault_boolean(profile, fail) ==
    LET str == krb5_libdefault_string(profile, fail)
    IN  IF str.retval # OK THEN [retval |-> str.retval, ret_value |-> -1]
        ELSE [retval |-> OK, ret_value |-> _krb5_conf_boolean(str.value)]

\* The addresses block taking a failed lookup of noaddresses as false.
InitAddresses_lookup_failure_false(address_list, profile, local, fail) ==
    LET b == krb5_libdefault_boolean(profile, fail)
    IN  IF address_list # NULL
        THEN IF fail = "krb5_copy_addresses"
             THEN [code |-> "ENOMEM", addresses |-> NULL]
             ELSE [code |-> OK, addresses |-> address_list]
        ELSE IF b.retval = OK /\ b.ret_value # 0
        THEN [code |-> OK, addresses |-> NULL]
        ELSE IF fail = "krb5_os_localaddr"
        THEN [code |-> "ENOMEM", addresses |-> NULL]
        ELSE [code |-> OK, addresses |-> local]

\* The addresses block: address_list is the list of the caller's options
\* (NULL: none given), local the addresses krb5_os_localaddr finds.
InitAddresses(address_list, profile, local, fail) ==
    LET b == krb5_libdefault_boolean(profile, fail)
    IN  IF address_list # NULL
        THEN IF fail = "krb5_copy_addresses"
             THEN [code |-> "ENOMEM", addresses |-> NULL]
             ELSE [code |-> OK, addresses |-> address_list]
        ELSE IF b.retval # OK \/ b.ret_value # 0
        THEN [code |-> OK, addresses |-> NULL]
        ELSE IF fail = "krb5_os_localaddr"
        THEN [code |-> "ENOMEM", addresses |-> NULL]
        ELSE [code |-> OK, addresses |-> local]

InitAddr ==
    /\ InitVerify
    /\ kcontext.sync_kdctime = FALSE

\* krb5_init_creds_init reaches its addresses block.
AddrCall ==
    /\ fn = NoFn
    /\ \E address_list \in {NULL, [list |-> <<"10.1.1.1">>]},
          rv \in {NULL} \cup {[v |-> x] :
                                 x \in {"true", "false", "y", "0", "maybe"}},
          lv \in {NULL} \cup {[v |-> x] :
                                 x \in {"true", "false", "y", "0", "maybe"}},
          fail \in {"none", "strdup", "krb5_copy_addresses",
                    "krb5_os_localaddr"} :
          fn' = [f |-> "InitAddresses", address_list |-> address_list,
                 profile |-> [realm |-> rv, libdefaults |-> lv],
                 local |-> [list |-> <<"192.168.0.7">>], fail |-> fail,
                 result |-> InitAddresses(address_list,
                                [realm |-> rv, libdefaults |-> lv],
                                [list |-> <<"192.168.0.7">>], fail)]
    /\ UNCHANGED <<kcontext, ctx, last, hist, drv, git, wire, pair>>

SpecAddr == InitAddr /\ [][AddrCall]_vars

(***************************************************************************)
(* The step API on contexts with a start time, fed AS-REPs whose start     *)
(* time is away from the time of the request, while the clock advances.     *)
(***************************************************************************)
InitSkew ==
    /\ kcontext \in Contexts
    /\ \E start_time \in {0, 0 - ClockStart, 500},
          opt \in InitOptions(FALSE), n \in Nonces :
          ctx = krb5_init_creds_set_service(
                    krb5_init_creds_init(
                        Princ("A", <<"u">>, "KRB5_NT_PRINCIPAL"),
                        start_time, opt, n), NULL)
    /\ last = NoCall(ctx)
    /\ hist = [kdc |-> "any", complete |-> FALSE, referrals |-> 0]
    /\ drv = GetIdle
    /\ git = GitIdle
    /\ wire = NoWire
    /\ fn = NoFn
    /\ pair = NoPair

\* A step call on an AS-REP for the request last emitted: the KDC issued it
\* tick seconds after the request and gave it the start time starttime (0:
\* none, the time it was issued counts); the clock of the client reads the
\* same time when the reply is processed.
SkewReply ==
    /\ last.called /\ last.code = OK /\ ~hist.complete
    /\ \E tick \in {0, 200, 400},
          starttime \in {0, ctx.request.from, ctx.request.from + 400},
          ext \in {ExtOk(<<>>, ""), ExtFail("gak_fct")} :
          LET context == [kcontext EXCEPT !.now = @ + tick]
              in == [GoodAsRep(ctx.encoded_previous_request, "K1",
                               context.now)
                        EXCEPT !.enc.times.starttime = starttime]
              r == krb5_init_creds_step(context, ctx, in, ext)
          IN  /\ kcontext' = context
              /\ ctx' = r.ctx
              /\ last' = [called |-> TRUE, in |-> in, fail |-> ext.fail,
                          pa_key |-> ReplyPaKey(ctx, in, ext),
                          code |-> r.code, out |-> r.out, realm |-> r.realm,
                          complete |-> r.complete, entry |-> r.entry,
                          pre |-> ctx]
              /\ hist' = [hist EXCEPT !.complete = @ \/ r.complete]
    /\ UNCHANGED <<drv, git, wire, fn, pair>>

SpecSkew == InitSkew /\ [][StepInitial \/ SkewReply]_vars

(***************************************************************************)
(* Helper routines called directly, each once, on inputs of their own.      *)
(***************************************************************************)
\* sort_krb5_padata_sequence with the profile it reads: the configured
\* preferred_preauth_types, or the built-in list when the lookup fails.
SortPadataSequence(padata, profile, fail) ==
    LET ls == krb5_libdefault_string(profile, fail)
    IN  IF padata = NULL \/ padata.list = <<>> THEN padata
        ELSE IF ls.retval # OK
        THEN [list |-> SortFrom(padata.list, DefaultPreauthTypes, 1)]
        ELSE [list |-> SortFrom(padata.list, PreferredTypes(ls.value), 1)]

\* sort_krb5_padata_sequence called on a padata list under a profile.
SortCall ==
    /\ fn = NoFn
    /\ \E n \in 0..3, fail \in {"none", "strdup"},
          preauth_types \in
              {NULL, [v |-> <<>>], [v |-> <<"1">>],
               [v |-> <<"1", ",", " ", "3">>], [v |-> <<"3", ",", "1">>],
               [v |-> <<"1", " ", "1">>], [v |-> <<" ", ",", "2">>],
               [v |-> <<"2", ",", "x", ",", "1">>], [v |-> <<"-", "1", ",", "2">>],
               [v |-> <<"1", "7", ",", "3">>], [v |-> <<"1", "4", " ", "1", "7">>]} :
          \E l \in [1..n -> {1, 2, 3, 14, 17}], in_realm \in BOOLEAN :
             fn' = [f |-> "sort_krb5_padata_sequence",
                    padata |-> [list |-> l],
                    profile |-> IF in_realm
                                THEN [realm |-> preauth_types,
                                      libdefaults |-> [v |-> <<"2">>]]
                                ELSE [realm |-> NULL,
                                      libdefaults |-> preauth_types],
                    fail |-> fail,
                    result |-> SortPadataSequence(
                        [list |-> l],
                        IF in_realm
                        THEN [realm |-> preauth_types,
                              libdefaults |-> [v |-> <<"2">>]]
                        ELSE [realm |-> NULL, libdefaults |-> preauth_types],
                        fail)]
    /\ UNCHANGED <<kcontext, ctx, last, hist, drv, git, wire, pair>>

\* One reply given to send_as_request, as the answer of krb5_sendto_kdc to
\* an encoded AS-REQ, and to init_creds_validate_reply.
ClassifyCall ==
    /\ fn = NoFn
    /\ \E reply \in
             ErrorReplies
             \cup {[kind |-> "OTHER", b0 |-> b0, b1 |-> b1] :
                      b0 \in {4, 5, 106}, b1 \in {9, 10, 11, 12}}
             \cup {[GoodAsRep([client |-> Princ("A", <<"u">>,
                                                 "KRB5_NT_PRINCIPAL"),
                                server |-> TgsPrinc("A"), nonce |-> 7],
                               "K1", ClockStart)
                        EXCEPT !.msg_type = mt, !.decodes = dec] :
                      mt \in {"KRB5_AS_REP", "KRB5_TGS_REP"},
                      dec \in BOOLEAN},
          held \in {NULL, [error |-> "KDC_ERR_PREAUTH_REQUIRED",
                           client |-> NULL, e_data |-> <<2>>]},
          tcp_only \in BOOLEAN :
          fn' = [f |-> "classify", reply |-> reply,
                 send |-> send_as_request(
                              [kind |-> "AS_REQ"], reply, tcp_only),
                 step |-> init_creds_validate_reply(
                              [err_reply |-> held, reply |-> NULL], reply)]
    /\ UNCHANGED <<kcontext, ctx, last, hist, drv, git, wire, pair>>

\* get_in_tkt_enctypes without its terminator: des3-cbc-sha1, arcfour-hmac,
\* des-cbc-md5, des-cbc-md4, des-cbc-crc.
get_in_tkt_enctypes == <<16, 23, 3, 2, 1>>

\* The enctype block searching the whole list for the enctype wanted.
RequestKtypes_search_from_start(ktypes) ==
    LET copied == get_in_tkt_enctypes \o <<0>>
        counted == Len(get_in_tkt_enctypes)
        Found(ktype, next, t) ==
            {i \in (1)..counted : ktype[i] = t}
        Min(S) == CHOOSE i \in S : \A j \in S : i <= j
        Swap(ktype, a, b) ==
            [ktype EXCEPT ![a] = ktype[b], ![b] = ktype[a]]
        RECURSIVE Loop(_, _, _)
        \* next counts from 0 as in the code; ktype[next] is ktype[next + 1]
        \* of the sequence
        Loop(ktype, rest, next) ==
            IF rest = <<>>
            THEN [ktype |-> [ktype EXCEPT ![next + 1] = 0], nktypes |-> next]
            ELSE IF Head(rest) = ktype[next + 1]
            THEN Loop(ktype, Tail(rest), next + 1)
            ELSE IF Found(ktype, next, Head(rest)) # {}
            THEN Loop(Swap(ktype, next + 1,
                           Min(Found(ktype, next, Head(rest)))),
                      Tail(rest), next + 1)
            ELSE Loop(ktype, Tail(rest), next)
    IN  IF ktypes = NULL THEN [ktype |-> copied, nktypes |-> counted]
        ELSE Loop(copied, ktypes.list, 0)

\* The enctype block of krb5_get_in_tkt: request.ktype, a copy of
\* get_in_tkt_enctypes with its terminator, and request.nktypes after the
\* loop over the list ktypes of the caller (NULL or [list |-> enctypes]).
RequestKtypes(ktypes) ==
    LET copied == get_in_tkt_enctypes \o <<0>>
        counted == Len(get_in_tkt_enctypes)
        Found(ktype, next, t) ==
            {i \in (next + 2)..counted : ktype[i] = t}
        Min(S) == CHOOSE i \in S : \A j \in S : i <= j
        Swap(ktype, a, b) ==
            [ktype EXCEPT ![a] = ktype[b], ![b] = ktype[a]]
        RECURSIVE Loop(_, _, _)
        \* next counts from 0 as in the code; ktype[next] is ktype[next + 1]
        \* of the sequence
        Loop(ktype, rest, next) ==
            IF rest = <<>>
            THEN [ktype |-> [ktype EXCEPT ![next + 1] = 0], nktypes |-> next]
            ELSE IF Head(rest) = ktype[next + 1]
            THEN Loop(ktype, Tail(rest), next + 1)
            ELSE IF Found(ktype, next, Head(rest)) # {}
            THEN Loop(Swap(ktype, next + 1,
                           Min(Found(ktype, next, Head(rest)))),
                      Tail(rest), next + 1)
            ELSE Loop(ktype, Tail(rest), next)
    IN  IF ktypes = NULL THEN [ktype |-> copied, nktypes |-> counted]
        ELSE Loop(copied, ktypes.list, 0)

\* The enctype block run on a list of the caller.
EnctypeCall ==
    /\ fn = NoFn
    /\ \E ktypes \in {NULL} \cup
             {[list |-> l] :
                 l \in UNION {[1..n -> {16, 23, 3, 1, 18}] : n \in 0..3}} :
          fn' = [f |-> "ktypes", ktypes |-> ktypes,
                 request |-> RequestKtypes(ktypes)]
    /\ UNCHANGED <<kcontext, ctx, last, hist, drv, git, wire, pair>>

\* stash_as_reply called on a decrypted reply and a credential without key,
\* ticket and addresses.
StashCall ==
    /\ fn = NoFn
    /\ \E client \in {NULL, Princ("A", <<"u">>, "KRB5_NT_PRINCIPAL")},
          server \in {NULL, TgsPrinc("A")},
          caddrs \in {NULL, [list |-> <<"10.1.1.1">>]},
          ccache \in GitCcaches,
          fail \in {"none", "copy_client", "copy_server",
                    "krb5_copy_keyblock_contents", "krb5_copy_addresses",
                    "encode_krb5_ticket", "krb5_cc_store_cred"} :
          LET good == GoodAsRep([client |-> Princ("B", <<"u">>,
                                                  "KRB5_NT_PRINCIPAL"),
                                 server |-> TgsPrinc("B"), nonce |-> 7],
                                "K1", ClockStart)
              as_reply == decrypt_as_reply(
                              decode_krb5_as_rep(
                                  [good EXCEPT !.enc.caddrs = caddrs]),
                              "K1").reply
              creds == [EmptyCreds EXCEPT !.client = client,
                                          !.server = server]
          IN  fn' = [f |-> "stash_as_reply", as_reply |-> as_reply,
                     creds |-> creds, fail |-> fail,
                     result |-> stash_as_reply(as_reply, creds, ccache, fail)]
    /\ UNCHANGED <<kcontext, ctx, last, hist, drv, git, wire, pair>>

\* krb5int_addint32 called on two values of krb5_int32; overflow tells that
\* one of the expressions it evaluated left the 32 bits.
AddintCall ==
    /\ fn = NoFn
    /\ \E x, y \in {KRB5_INT32_MIN, KRB5_INT32_MIN + 1, -1073741824, -2, -1,
                     0, 1, 2, 1073741824, KRB5_INT32_MAX - 1,
                     KRB5_INT32_MAX} :
          LET first == x > 0 /\ y > Int32Op("-", KRB5_INT32_MAX, x).v
              second == x < 0 /\ y < Int32Op("-", KRB5_INT32_MIN, x).v
          IN  fn' = [f |-> "krb5int_addint32", x |-> x, y |-> y,
                     result |-> krb5int_addint32(x, y),
                     overflow |->
                         \/ x > 0 /\ Int32Op("-", KRB5_INT32_MAX, x).overflow
                         \/ /\ ~first /\ x < 0
                            /\ Int32Op("-", KRB5_INT32_MIN, x).overflow
                         \/ /\ ~first /\ ~second
                            /\ Int32Op("+", x, y).overflow]
    /\ UNCHANGED <<kcontext, ctx, last, hist, drv, git, wire, pair>>

NextFn == SortCall \/ ClassifyCall \/ EnctypeCall \/ StashCall \/ AddintCall

SpecFn == InitAddr /\ [][NextFn]_vars

(***************************************************************************)
(* Properties                                                              *)
(***************************************************************************)
\* The reply fed to the last step call is a KRB-ERROR with this code.
LastInError(error) ==
    /\ last.called
    /\ last.in.kind = "KRB_ERROR" /\ last.in.decodes
    /\ last.in.error = error

\* The context before the last step call asked for canonicalization.
LastCanon ==
    \/ "CANONICALIZE" \in last.pre.request.kdc_options
    \/ last.pre.request.client.type = "KRB5_NT_ENTERPRISE_PRINCIPAL"

\* C1: in the step API loopcount never exceeds 16, and a step call fed
\* PREAUTH_REQUIRED with e-data after 16 iterations returns
\* KRB5_GET_IN_TKT_LOOP and emits no request.
C1_StepLoopLimit ==
    /\ ctx.loopcount <= MAX_IN_TKT_LOOPS
    /\ ( /\ LastInError("KDC_ERR_PREAUTH_REQUIRED")
         /\ last.in.e_data # <<>>
         /\ last.fail = "none"
         /\ last.pre.loopcount >= MAX_IN_TKT_LOOPS )
       => (last.code = "KRB5_GET_IN_TKT_LOOP" /\ last.out = EmptyData)

\* C2: the loop counter of krb5_get_in_tkt never exceeds MAX_IN_TKT_LOOPS,
\* and a request is sent in the first 16 loop iterations only.
C2_GitLoopLimit ==
    git.pc \in {"top", "sendto", "done"}
    => /\ git.loopcount <= MAX_IN_TKT_LOOPS
       /\ git.pc = "sendto" => git.loopcount <= MAX_IN_TKT_LOOPS

\* C3: once a step call has set COMPLETE, a later step call changes nothing
\* in the context and leaves out and realm empty.
C3_IdempotentAfterComplete ==
    [][(hist.complete /\ last'.fail = "none")
       => /\ ctx' = ctx
          /\ last'.out = EmptyData
          /\ last'.realm = ""]_vars

\* C4: a step call fed RESPONSE_TOO_BIG returns in out the request emitted
\* before, builds no new request, runs no pre-auth and does not advance
\* loopcount.
C4_TooBigReemits ==
    (LastInError("KRB_ERR_RESPONSE_TOO_BIG") /\ last.fail = "none")
    => /\ last.out = last.pre.encoded_previous_request
       /\ ctx.encoded_previous_request = last.pre.encoded_previous_request
       /\ last.entry = "none"
       /\ ctx.loopcount = last.pre.loopcount

\* C5: a step call fed RESPONSE_TOO_BIG returns KRB5KRB_ERR_RESPONSE_TOO_BIG,
\* and the next krb5_sendto_kdc of krb5int_init_creds_get_ext is TCP only.
C5_TooBigSurfaced ==
    (LastInError("KRB_ERR_RESPONSE_TOO_BIG") /\ last.fail = "none")
    => /\ last.code = "KRB5KRB_ERR_RESPONSE_TOO_BIG"
       /\ drv.pc = "sendto" => (drv.tcp_only /\ wire.tcp_only)

\* C6: with canonicalization and no pre-auth hint list, a step call fed
\* WRONG_REALM whose client has the non-empty realm REAL returns 0 and emits
\* an AS-REQ for client realm REAL and server krbtgt/REAL@REAL to realm REAL.
C6_StepReferral ==
    ( /\ LastInError("KDC_ERR_WRONG_REALM")
      /\ last.in.client # NULL
      /\ last.in.client.realm # ""
      /\ LastCanon
      /\ last.pre.preauth_to_use = NULL
      /\ last.pre.in_tkt_service = NULL
      /\ last.fail = "none" )
    => /\ last.code = OK
       /\ last.out.kind = "AS_REQ"
       /\ last.out.client.realm = last.in.client.realm
       /\ last.out.server = TgsPrinc(last.in.client.realm)
       /\ last.realm = last.in.client.realm

\* The head of the krb5_get_in_tkt loop is reached through the referral
\* branch: the error held is the WRONG_REALM that was followed.
GitReferred ==
    /\ git.pc = "top"
    /\ git.err_reply # NULL
    /\ git.err_reply.error = "KDC_ERR_WRONG_REALM"
    /\ git.canon_flag

\* C7: in krb5_get_in_tkt a followed WRONG_REALM whose client has realm B
\* makes the next request sent have the client of the call with realm B and
\* the server of the call with realm B, for a local-realm TGT request
\* krbtgt/B@B, and it is sent to realm B.
C7_GitReferralRewrite ==
    [][(GitReferred /\ git'.pc = "sendto")
       => /\ wire'.n = wire.n + 1
          /\ wire'.request.client =
                 [git.creds.client EXCEPT !.realm = git.err_reply.client.realm]
          /\ wire'.request.server.realm = git.err_reply.client.realm
          /\ git.is_tgt_req
             => wire'.request.server = TgsPrinc(git.err_reply.client.realm)
          /\ wire'.realm = git.err_reply.client.realm]_vars

\* A request for u@B and krbtgt/B@B was sent to B after a referral from A.
C7_Witness ==
    /\ wire.by = "git" /\ wire.n = 2
    /\ hist.referrals = 1
    /\ git.creds.client.realm = "A" /\ git.is_tgt_req
    /\ wire.request.client = Princ("B", <<"u">>, "KRB5_NT_PRINCIPAL")
    /\ wire.request.server = TgsPrinc("B")
    /\ wire.realm = "B"

\* The reply krb5_get_in_tkt has just handled is a WRONG_REALM error under
\* canonicalization.
GitGotWrongRealm ==
    /\ git.pc = "sendto"
    /\ git'.err_reply # NULL
    /\ git'.err_reply.error = "KDC_ERR_WRONG_REALM"
    /\ git.canon_flag

\* C8: in krb5_get_in_tkt the referral count never decreases, at most
\* KRB5_REFERRAL_MAXHOPS referrals are followed, and the WRONG_REALM that
\* would exceed the bound, or has no client or an empty client realm, ends
\* the call with KRB5KDC_ERR_WRONG_REALM without a further request.
C8_GitReferralBound ==
    /\ [](git.pc \in {"top", "sendto", "done"}
           => hist.referrals <= KRB5_REFERRAL_MAXHOPS)
    /\ [][git.pc \in {"top", "sendto"}
           => /\ git'.referral_count >= git.referral_count
              /\ ( /\ GitGotWrongRealm
                   /\ \/ hist.referrals = KRB5_REFERRAL_MAXHOPS
                      \/ git'.err_reply.client = NULL
                      \/ git'.err_reply.client.realm = "" )
                 => /\ git'.pc = "done"
                    /\ git'.retval = "KRB5KDC_ERR_WRONG_REALM"
                    /\ wire' = wire]_vars

\* The call ended on the referral after KRB5_REFERRAL_MAXHOPS followed ones.
C8_Witness ==
    /\ git.pc = "done"
    /\ git.retval = "KRB5KDC_ERR_WRONG_REALM"
    /\ hist.referrals = KRB5_REFERRAL_MAXHOPS
    /\ git.err_reply.client # NULL
    /\ git.err_reply.client.realm # ""
    /\ wire.n = KRB5_REFERRAL_MAXHOPS + 1

\* C9: the number of WRONG_REALM referrals followed through
\* krb5_init_creds_step on one context never exceeds KRB5_REFERRAL_MAXHOPS.
C9_StepReferralBound == hist.referrals <= KRB5_REFERRAL_MAXHOPS

\* C10: every request a driver hands to krb5_sendto_kdc, and every request
\* a step call emits, has the client realm equal to the server realm and to
\* the realm it is addressed to.
C10_RealmConsistency ==
    /\ wire.n > 0
       => /\ wire.request.kind = "AS_REQ"
          /\ wire.request.client.realm = wire.request.server.realm
          /\ wire.request.server.realm = wire.realm
    /\ (last.called /\ last.code = OK /\ ~last.complete)
       => /\ last.out.kind = "AS_REQ"
          /\ last.out.client.realm = last.out.server.realm
          /\ last.out.server.realm = last.realm

\* krb5int_init_creds_get_ext sent a request for a service to realm B after
\* a referral away from the realm the service name was parsed in.
C10_Witness ==
    /\ wire.by = "get" /\ wire.n >= 2
    /\ hist.referrals >= 1
    /\ ctx.in_tkt_service # NULL
    /\ ctx.in_tkt_service.realm = "A"
    /\ wire.request.client.realm = "B"
    /\ wire.request.server.realm = "B"
    /\ wire.realm = "B"

\* krb5_get_in_tkt was called with a client and a server of different realms.
GitRealmMismatch ==
    /\ git.pc # "idle"
    /\ git.creds.client.realm # git.creds.server.realm

\* C11: krb5_get_in_tkt called with a client realm different from the server
\* realm returns KRB5_IN_TKT_REALM_MISMATCH at once: no request is built, none
\* is sent, and the credential and the cache are as the caller passed them.
C11_GitRealmMismatch ==
    /\ [](GitRealmMismatch
           => /\ wire.n = 0
              /\ git.request = GitCall(git.creds, git.options, git.ptypes,
                                       git.ccache).request
              /\ git.creds \in GitCreds
              /\ git.ccache \in GitCcaches
              /\ git.pc = "done" => git.retval = "KRB5_IN_TKT_REALM_MISMATCH")
    /\ [][(GitRealmMismatch /\ git.pc = "call")
           => /\ git'.pc = "done"
              /\ git'.retval = "KRB5_IN_TKT_REALM_MISMATCH"
              /\ git'.creds = git.creds
              /\ git'.ccache = git.ccache
              /\ wire' = wire]_vars

\* The call for u@A and krbtgt/B@B with a cache returned the mismatch.
C11_Witness ==
    /\ git.pc = "done"
    /\ git.retval = "KRB5_IN_TKT_REALM_MISMATCH"
    /\ git.creds.client.realm = "A"
    /\ git.creds.server = TgsPrinc("B")
    /\ git.ccache # NULL

\* The decrypted AS-REP krb5int_init_creds_get_ext holds, if any.
GetDecrypted ==
    /\ wire.by = "get"
    /\ ctx.reply # NULL
    /\ ctx.reply.enc_part2 # NULL

\* The decrypted AS-REP krb5_get_in_tkt holds, if any.
GitHoldsDecrypted ==
    /\ git.pc # "idle"
    /\ git.as_reply # NULL
    /\ git.as_reply.enc_part2 # NULL

\* krb5_get_in_tkt left its credential and its cache as the caller passed
\* them.
GitNoCredential ==
    /\ git.creds \in GitCreds
    /\ git.ccache \in GitCcaches

\* C12: in both drivers an exchange succeeds only on an AS-REP whose nonce is
\* the nonce of the request most recently transmitted, and a decrypted AS-REP
\* with another nonce ends the exchange with KRB5_KDCREP_MODIFIED and without
\* a credential.
C12_NonceBinding ==
    /\ (wire.by = "get" /\ hist.complete)
       => /\ GetDecrypted
          /\ ctx.reply.enc_part2.nonce = wire.request.nonce
    /\ (wire.by = "git" /\ git.pc = "done" /\ git.retval = OK)
       => /\ GitHoldsDecrypted
          /\ git.as_reply.enc_part2.nonce = wire.request.nonce
    /\ (GetDecrypted /\ ctx.reply.enc_part2.nonce # wire.request.nonce)
       => /\ last.code = "KRB5_KDCREP_MODIFIED"
          /\ ~last.complete /\ ~hist.complete
          /\ ctx.cred = EmptyCreds
          /\ drv.pc = "done" /\ drv.code = "KRB5_KDCREP_MODIFIED"
    /\ (GitHoldsDecrypted
        /\ git.as_reply.enc_part2.nonce # wire.request.nonce)
       => /\ git.pc = "done"
          /\ git.retval = "KRB5_KDCREP_MODIFIED"
          /\ GitNoCredential

\* krb5_get_in_tkt succeeded on the reply to its second request, sent with
\* another nonce than the first.
C12_Witness ==
    /\ wire.by = "git" /\ wire.n = 2
    /\ git.pc = "done" /\ git.retval = OK
    /\ wire.request.nonce = ClockStart + 1
    /\ git.as_reply.enc_part2.nonce = ClockStart + 1
    /\ git.creds.keyblock # ""

\* krb5_get_in_tkt refused the reply that carries the nonce of its first
\* request after it had sent a second one.
C12_WitnessStale ==
    /\ wire.by = "git" /\ wire.n = 2
    /\ wire.request.nonce = ClockStart + 1
    /\ GitHoldsDecrypted
    /\ git.as_reply.enc_part2.nonce = ClockStart
    /\ git.retval = "KRB5_KDCREP_MODIFIED"

\* verify_as_reply was called directly.
VerifyDone == fn.f = "verify_as_reply"

\* The rewrite of names is sanctioned for the request and the reply of the
\* call: canonicalization was requested and both servers are TGS principals.
VerifySanctioned ==
    /\ \/ "CANONICALIZE" \in fn.request.kdc_options
       \/ fn.request.client.type = "KRB5_NT_ENTERPRISE_PRINCIPAL"
    /\ IS_TGS_PRINC(fn.request.server)
    /\ IS_TGS_PRINC(fn.reply.enc_part2.server)

\* One of the conditions on the nonce, the ticket server, the client and the
\* times fails for the request and the reply of the call, the reply taken
\* with a zero starttime replaced by authtime.
VerifyViolated ==
    \/ fn.request.nonce # fn.reply.enc_part2.nonce
    \/ ~krb5_principal_compare(fn.reply.enc_part2.server,
                               fn.reply.ticket_server)
    \/ /\ ~krb5_principal_compare(fn.reply.client, fn.request.client)
       /\ ~VerifySanctioned
    \/ /\ "POSTDATED" \in fn.request.kdc_options
       /\ fn.request.from # 0
       /\ fn.reply.enc_part2.times.starttime # fn.request.from
    \/ /\ fn.request.till # 0
       /\ fn.reply.enc_part2.times.endtime > fn.request.till
    \/ /\ "RENEWABLE" \in fn.request.kdc_options
       /\ fn.request.rtime # 0
       /\ fn.reply.enc_part2.times.renew_till > fn.request.rtime
    \/ /\ "RENEWABLE_OK" \in fn.request.kdc_options
       /\ "RENEWABLE" \notin fn.request.kdc_options
       /\ "RENEWABLE" \in fn.reply.enc_part2.flags
       /\ fn.request.till # 0
       /\ fn.reply.enc_part2.times.renew_till > fn.request.till

\* The server of the reply is not the requested server and the rewrite is
\* not sanctioned.
VerifyServerRewritten ==
    /\ ~krb5_principal_compare(fn.reply.enc_part2.server, fn.request.server)
    /\ ~VerifySanctioned

\* The reply after the call is the reply passed with a zero starttime
\* replaced by authtime.
VerifyRepaired ==
    fn.reply =
        IF fn.as_reply.enc_part2.times.starttime = 0
        THEN [fn.as_reply EXCEPT !.enc_part2.times.starttime =
                                     fn.as_reply.enc_part2.times.authtime]
        ELSE fn.as_reply

\* C13 as stated: verify_as_reply returns KRB5_KDCREP_MODIFIED exactly when
\* one of the conditions on the nonce, the ticket server, the client and the
\* times fails.
C13_ModifiedExactly ==
    VerifyDone
    => /\ VerifyRepaired
       /\ fn.code = "KRB5_KDCREP_MODIFIED" <=> VerifyViolated

\* C13: verify_as_reply returns KRB5_KDCREP_MODIFIED exactly when one of the
\* conditions on the nonce, the ticket server, the client and the times
\* fails, or the server of the reply differs from the requested server
\* without sanctioned canonicalization; the conditions are evaluated after a
\* zero starttime of the reply has been replaced by authtime.
C13_ModifiedExactlyWithServer ==
    VerifyDone
    => /\ VerifyRepaired
       /\ fn.code = "KRB5_KDCREP_MODIFIED"
          <=> (VerifyViolated \/ VerifyServerRewritten)

\* verify_as_reply returned KRB5_KDCREP_MODIFIED for a reply whose only
\* fault is a server other than the requested one.
C13_Witness ==
    /\ VerifyDone
    /\ fn.code = "KRB5_KDCREP_MODIFIED"
    /\ VerifyServerRewritten
    /\ ~VerifyViolated
    /\ fn.as_reply.enc_part2.times.starttime = 0

\* The starttime of the reply of the call is further than clockskew from
\* the time verify_as_reply was given.
VerifySkewed ==
    \/ fn.reply.enc_part2.times.starttime - fn.time_now > fn.context.clockskew
    \/ fn.time_now - fn.reply.enc_part2.times.starttime > fn.context.clockskew

ClientRewritten(request, reply) ==
    /\ ~krb5_principal_compare(reply.client, request.client)
    /\ ~ /\ \/ "CANONICALIZE" \in request.kdc_options
            \/ request.client.type = "KRB5_NT_ENTERPRISE_PRINCIPAL"
         /\ IS_TGS_PRINC(request.server)
         /\ IS_TGS_PRINC(reply.enc_part2.server)

\* C14: in both drivers a decrypted reply whose client differs from the
\* requested client, unless canonicalization was requested and the requested
\* server and the server of the reply are TGS principals, ends the exchange
\* with KRB5_KDCREP_MODIFIED and no credential is stored; an exchange that
\* succeeds holds no such reply.
C14_Canonicalization ==
    /\ (GetDecrypted /\ ClientRewritten(ctx.request, ctx.reply))
       => /\ last.code = "KRB5_KDCREP_MODIFIED"
          /\ ~hist.complete
          /\ ctx.cred = EmptyCreds
          /\ drv.pc = "done" /\ drv.code = "KRB5_KDCREP_MODIFIED"
    /\ (GitHoldsDecrypted /\ ClientRewritten(git.request, git.as_reply))
       => /\ git.pc = "done"
          /\ git.retval = "KRB5_KDCREP_MODIFIED"
          /\ GitNoCredential
    /\ (wire.by = "get" /\ hist.complete)
       => ~ClientRewritten(ctx.request, ctx.reply)
    /\ (wire.by = "git" /\ git.pc = "done" /\ git.retval = OK)
       => ~ClientRewritten(git.request, git.as_reply)

\* krb5int_init_creds_get_ext, without canonicalization, refused the reply
\* to the request for u that names the client v and is right otherwise.
C14_Witness ==
    /\ GetDecrypted
    /\ ctx.request.client.data = <<"u">>
    /\ ctx.reply.client.data = <<"v">>
    /\ "CANONICALIZE" \notin ctx.request.kdc_options
    /\ ctx.request.client.type = "KRB5_NT_PRINCIPAL"
    /\ ctx.reply.enc_part2.nonce = ctx.request.nonce
    /\ drv.pc = "done" /\ drv.code = "KRB5_KDCREP_MODIFIED"

\* krb5_get_in_tkt, with canonicalization, accepted the reply to the request
\* for u and krbtgt/A@A that names the client v.
C14_WitnessAccepted ==
    /\ git.pc = "done" /\ git.retval = OK
    /\ git.request.client.data = <<"u">>
    /\ git.as_reply.client.data = <<"v">>
    /\ git.canon_flag
    /\ git.request.server = TgsPrinc("A")

\* The times of a credential are in order.
TimesOrdered(creds) ==
    /\ creds.times.starttime <= creds.times.endtime
    /\ "RENEWABLE" \in creds.ticket_flags
       => creds.times.endtime <= creds.times.renew_till

\* C16: after a successful exchange of either driver the times of the
\* credential satisfy starttime <= endtime and, for a renewable ticket,
\* endtime <= renew_till.
C16_TimesOrdered ==
    /\ (wire.by = "get" /\ hist.complete) => TimesOrdered(ctx.cred)
    /\ (wire.by = "git" /\ git.pc = "done" /\ git.retval = OK)
       => TimesOrdered(git.creds)

\* The last step call returned 0 and emitted a request.
LastEmitted ==
    /\ last.called /\ last.code = OK /\ ~last.complete
    /\ last.out.kind = "AS_REQ"

\* C17: every request the step API emits carries the times set on the first
\* iteration: request_time is the time of day, from is request_time plus
\* start_time, and till is from plus the ticket lifetime, so that a positive
\* ticket lifetime gives a nonzero till.
C17_StepRequestTimes ==
    LastEmitted
    => /\ ctx.request_time = kcontext.now
       /\ last.out.from = krb5int_addint32(ctx.request_time, ctx.start_time)
       /\ last.out.till = krb5int_addint32(last.out.from, ctx.tkt_life)
       /\ ctx.tkt_life > 0 => last.out.till # 0

\* The part of C17 on request_time and from.
C17_RequestTimeAndFrom ==
    LastEmitted
    => /\ ctx.request_time = kcontext.now
       /\ last.out.from = krb5int_addint32(ctx.request_time, ctx.start_time)

\* C18: in every request the step API emits, with a positive renew_life the
\* RENEWABLE option is set, RENEWABLE_OK is cleared and rtime is from plus
\* renew_life, raised to till if below it, so that rtime >= till; with
\* renew_life <= 0 rtime is 0 and RENEWABLE is not set.
C18_StepRenewable ==
    LastEmitted
    => /\ "RENEWABLE" \in last.out.kdc_options
          => last.out.rtime >= last.out.till
       /\ ctx.renew_life > 0
          => /\ "RENEWABLE" \in last.out.kdc_options
             /\ "RENEWABLE_OK" \notin last.out.kdc_options
             /\ last.out.rtime >=
                    krb5int_addint32(last.out.from, ctx.renew_life)
             /\ \/ last.out.rtime = last.out.till
                \/ last.out.rtime =
                       krb5int_addint32(last.out.from, ctx.renew_life)
       /\ ctx.renew_life <= 0
          => /\ last.out.rtime = 0
             /\ "RENEWABLE" \notin last.out.kdc_options

\* A request with RENEWABLE, without RENEWABLE_OK and with rtime two hours
\* after from was emitted on a later iteration.
C18_Witness ==
    /\ LastEmitted
    /\ ctx.loopcount = 2
    /\ ctx.renew_life = 7200
    /\ "RENEWABLE" \in last.out.kdc_options
    /\ "RENEWABLE_OK" \notin last.out.kdc_options
    /\ last.out.rtime = last.out.from + 7200

\* C19: a step call that returns 0 without COMPLETE yields in out the
\* encoding of the request of the context and in realm the non-empty realm
\* of the server of that request; a call that sets COMPLETE returns 0 with
\* out and realm empty; COMPLETE is never set with a non-zero return code.
C19_StepWireContract ==
    last.called
    => /\ (last.code = OK /\ ~last.complete)
          => /\ last.out # EmptyData
             /\ last.out = encode_krb5_as_req(ctx.request)
             /\ last.realm # ""
             /\ last.realm = ctx.request.server.realm
       /\ last.complete
          => /\ last.code = OK
             /\ last.out = EmptyData
             /\ last.realm = ""
       /\ last.code # OK => ~last.complete

\* A step call fed an AS-REP set COMPLETE and left out and realm empty.
C19_Witness ==
    /\ last.called /\ last.complete
    /\ last.in.kind = "AS_REP"
    /\ last.code = OK
    /\ last.out = EmptyData /\ last.realm = ""
    /\ ctx.cred.keyblock # ""

\* The credential a decrypted AS-REP describes.
CredOf(reply) ==
    [client |-> reply.client,
     server |-> reply.enc_part2.server,
     keyblock |-> reply.enc_part2.session,
     times |-> reply.enc_part2.times,
     ticket_flags |-> reply.enc_part2.flags,
     addresses |-> reply.enc_part2.caddrs,
     ticket |-> [server |-> reply.ticket_server]]

\* krb5int_init_creds_get_ext completed on the reply to its first request.
GetOneRound == wire.by = "get" /\ wire.n = 1 /\ hist.complete

\* krb5_get_in_tkt succeeded on the reply to its first request.
GitOneRound ==
    wire.by = "git" /\ wire.n = 1 /\ git.pc = "done" /\ git.retval = OK

\* C20: when the KDC answers the first request with an AS-REP that decrypts
\* and passes verify_as_reply, the step API completes after one round, and
\* the credential of the step API and the credential of krb5_get_in_tkt are
\* both the credential that AS-REP describes: client, server, session key,
\* flags, times, addresses and ticket.
C20_DriverEquivalence ==
    /\ ( /\ wire.by = "get" /\ wire.n = 1
         /\ last.in = GoodAsRep(wire.request, "K1", kcontext.now)
         /\ last.fail = "none" )
       => /\ last.complete /\ last.code = OK
          /\ ctx.loopcount = 1
    /\ GetOneRound => ctx.cred = CredOf(ctx.reply)
    /\ GitOneRound => git.creds = CredOf(git.as_reply)

\* The last step call was fed PREAUTH_REQUIRED with hints and every external
\* routine succeeded.
LastPreauthRequired ==
    /\ LastInError("KDC_ERR_PREAUTH_REQUIRED")
    /\ last.in.e_data # <<>>
    /\ last.fail = "none"

\* C21: a step call fed PREAUTH_REQUIRED with hints leaves the hints, sorted
\* by preference, as the candidate list of the context, and the request it
\* emits is built by krb5_do_preauth over that list, not by
\* krb5_do_preauth_tryagain; the valid AS-REP to that request completes the
\* exchange without a further iteration.
C21_PreauthRetry ==
    /\ LastPreauthRequired
       => /\ ctx.preauth_to_use =
                 sort_krb5_padata_sequence([list |-> last.in.e_data])
          /\ last.code = OK
          /\ last.out.kind = "AS_REQ"
          /\ last.entry = "krb5_do_preauth"
    /\ ( /\ last.called
         /\ last.pre.loopcount = 2
         /\ last.pre.err_reply # NULL
         /\ last.pre.err_reply.error = "KDC_ERR_PREAUTH_REQUIRED"
         /\ last.in = GoodAsRep(last.pre.encoded_previous_request, "K1",
                                kcontext.now)
         /\ last.fail = "none" )
       => /\ last.complete /\ last.code = OK
          /\ ctx.loopcount = last.pre.loopcount

\* The last step call was fed a KRB-ERROR that decodes and is not
\* RESPONSE_TOO_BIG, which the transport retry handles.
LastKdcError ==
    /\ last.called
    /\ last.in.kind = "KRB_ERROR" /\ last.in.decodes
    /\ last.in.error # "KRB_ERR_RESPONSE_TOO_BIG"

\* The error fed to the last step call is one the step API goes on from:
\* PREAUTH_REQUIRED with hints, WRONG_REALM under canonicalization, or an
\* error with e-data while a pre-auth list is held and the plugins can act.
LastErrorConsumable ==
    \/ last.in.error = "KDC_ERR_PREAUTH_REQUIRED" /\ last.in.e_data # <<>>
    \/ last.in.error = "KDC_ERR_WRONG_REALM" /\ LastCanon
    \/ /\ last.in.e_data # <<>>
       /\ last.pre.preauth_to_use # NULL
       /\ last.fail # "preauth"

\* The error krb5_get_in_tkt holds is one it goes on from.
GitErrorConsumable ==
    \/ /\ git.err_reply.error = "KDC_ERR_PREAUTH_REQUIRED"
       /\ git.err_reply.e_data # <<>>
    \/ git.err_reply.error = "KDC_ERR_WRONG_REALM" /\ git.canon_flag

\* krb5_get_in_tkt holds the KRB-ERROR send_as_request returned.
GitHoldsError == git.pc \in {"top", "sendto", "done"} /\ git.err_reply # NULL

\* C22: in both drivers a KRB-ERROR is followed by another request only if it
\* is PREAUTH_REQUIRED with hints, WRONG_REALM under canonicalization, or an
\* error a pre-auth method acts on; every other KRB-ERROR ends the exchange
\* with the KDC error code plus ERROR_TABLE_BASE_krb5, the step call that
\* consumed it emits nothing, and no request is sent after it.
C22_ErrorPropagation ==
    /\ []( /\ (LastKdcError /\ last.code = OK) => LastErrorConsumable
           /\ (LastKdcError /\ last.fail \in {"none", "preauth"}
               /\ ~LastErrorConsumable)
              => /\ last.code = ErrPlusBase(last.in.error)
                 /\ last.out = EmptyData /\ ~last.complete
                 /\ wire.by = "get"
                    => drv.pc = "done" /\ drv.code = last.code
           /\ (LastKdcError /\ last.fail \in {"none", "preauth"}
               /\ last.code # OK)
              => last.code = ErrPlusBase(last.in.error)
           /\ (GitHoldsError /\ ~GitErrorConsumable)
              => /\ git.pc = "done"
                 /\ git.retval = ErrPlusBase(git.err_reply.error) )
    /\ [][ /\ (LastKdcError' /\ last' # last /\ last'.code # OK)
              => wire' = wire
           /\ (GitHoldsError' /\ git' # git /\ ~GitErrorConsumable')
              => wire' = wire
           /\ (drv.pc = "done" /\ drv.code # OK) => wire' = wire
           /\ git.pc = "done" => wire' = wire ]_vars

\* krb5int_init_creds_get_ext ended on C_PRINCIPAL_UNKNOWN that carried
\* e-data while the context held no pre-auth list.
C22_Witness ==
    /\ wire.by = "get" /\ wire.n = 1
    /\ LastKdcError
    /\ last.in.error = "KDC_ERR_C_PRINCIPAL_UNKNOWN"
    /\ last.in.e_data # <<>>
    /\ last.fail = "none"
    /\ drv.pc = "done" /\ drv.code = "KRB5KDC_ERR_C_PRINCIPAL_UNKNOWN"

\* krb5_get_in_tkt ended on PREAUTH_REQUIRED without hints.
C22_WitnessGit ==
    /\ wire.by = "git" /\ wire.n = 1
    /\ git.pc = "done"
    /\ git.err_reply # NULL
    /\ git.err_reply.error = "KDC_ERR_PREAUTH_REQUIRED"
    /\ git.err_reply.e_data = <<>>
    /\ git.retval = "KRB5KDC_ERR_PREAUTH_REQUIRED"

\* The KRB-ERROR a reply carries, as the context retains it.
ErrorOf(in) == [error |-> in.error, client |-> in.client, e_data |-> in.e_data]

\* C23: krb5_init_creds_get_error returns 0 and a copy of the most recent
\* KRB-ERROR the context received: the error just fed to the last step call,
\* or the error held before it when that call was fed another reply; it
\* returns 0 and NULL on a context that has received no reply, and a failing
\* copy returns an error code and NULL.
C23_GetError ==
    /\ ~last.called
       => krb5_init_creds_get_error(ctx, "none") = [code |-> OK, error |-> NULL]
    /\ (last.called /\ last.in.kind = "KRB_ERROR" /\ last.in.decodes)
       => krb5_init_creds_get_error(ctx, "none") =
              [code |-> OK, error |-> ErrorOf(last.in)]
    /\ (last.called /\ last.in.kind \notin {"KRB_ERROR", "EMPTY"}
        /\ last.pre.err_reply # NULL)
       => krb5_init_creds_get_error(ctx, "none") =
              [code |-> OK, error |-> last.pre.err_reply]
    /\ \A fail \in {"k5alloc", "krb5_copy_principal",
                    "krb5int_copy_data_contents"} :
          LET r == krb5_init_creds_get_error(ctx, fail)
          IN  r.error = NULL /\ (ctx.err_reply # NULL => r.code # OK)

\* C24: krb5int_init_creds_get_ext returns after a bounded number of rounds
\* whatever the KDC answers: it has returned before the context has built
\* more than MAX_IN_TKT_LOOPS requests, also against a KDC that always
\* answers PREAUTH_REQUIRED, always WRONG_REALM or always RESPONSE_TOO_BIG.
C24_GetTerminates ==
    (wire.by = "get" /\ ctx.loopcount > MAX_IN_TKT_LOOPS) => drv.pc = "done"

\* C25: with two contexts on one library context driven by interleaved init
\* and step calls, every call on a context finds the library context, with
\* its pre-auth request state, as the calls on that context alone leave it,
\* so that it emits what it emits when driven alone.
C25_ContextsIndependent ==
    pair.last.by # "none"
    => pair.last.found = pair.last.alone

\* The context has been destroyed.
Freed == fn.f \in {"krb5_init_creds_free", "krb5_init_creds_init"}

AddrConfigured ==
    IF fn.profile.realm # NULL THEN fn.profile.realm ELSE fn.profile.libdefaults

\* C27: krb5_init_creds_init gives the request a copy of the address list of
\* the caller when there is one; else no addresses when noaddresses is
\* configured true; else, noaddresses configured false or not configured at
\* all, the local addresses.
C27_AddressPolicy ==
    (fn.f = "InitAddresses" /\ fn.fail = "none")
    => /\ fn.result.code = OK
       /\ fn.result.addresses =
              IF fn.address_list # NULL THEN fn.address_list
              ELSE IF /\ AddrConfigured # NULL
                      /\ AddrConfigured.v \in
                             {"y", "yes", "true", "t", "1", "on"}
              THEN NULL
              ELSE fn.local

\* C27 with the default as the code has it: krb5_init_creds_init gives the
\* request a copy of the address list of the caller when there is one; else
\* no addresses when noaddresses is configured true or is not configured at
\* all; else, noaddresses configured with a value that is not a word for
\* true, the local addresses.
C27_AddressPolicyDefault ==
    (fn.f = "InitAddresses" /\ fn.fail = "none")
    => /\ fn.result.code = OK
       /\ fn.result.addresses =
              IF fn.address_list # NULL THEN fn.address_list
              ELSE IF AddrConfigured = NULL THEN NULL
              ELSE IF AddrConfigured.v \in {"y", "yes", "true", "t", "1", "on"}
              THEN NULL
              ELSE fn.local

\* Without an address list and with noaddresses nowhere in the profile the
\* request was given no addresses.
C27_Witness ==
    /\ fn.f = "InitAddresses" /\ fn.fail = "none"
    /\ fn.address_list = NULL
    /\ fn.profile.realm = NULL /\ fn.profile.libdefaults = NULL
    /\ fn.result = [code |-> OK, addresses |-> NULL]

\* C28: within one call of send_as_request by krb5_get_in_tkt there are at
\* most two transmissions: the call opens with one that is not TCP only; a
\* transmission during the call repeats the same packet TCP only, happens
\* only when the one before was not TCP only, and only on a reply that
\* decoded as a KRB-ERROR RESPONSE_TOO_BIG; a RESPONSE_TOO_BIG held as the
\* error reply answered a TCP-only transmission, nothing was sent after it,
\* and the call of krb5_get_in_tkt ends with that error code plus the base.
C28_TcpFallback ==
    /\ [][/\ (git.pc = "top" /\ wire'.n # wire.n)
             => (wire'.n = wire.n + 1 /\ ~wire'.tcp_only)
          /\ (git.pc = "sendto" /\ wire'.n # wire.n)
             => /\ ~wire.tcp_only /\ wire'.tcp_only
                /\ wire'.n = wire.n + 1
                /\ wire'.request = wire.request /\ wire'.realm = wire.realm
                /\ git' = [git EXCEPT !.tcp_only = TRUE]
                /\ \A in \in {SendFail}
                       \cup KdcReplies(hist.kdc, wire.request, kcontext.now) :
                      send_as_request(wire.request, in, git.tcp_only).again
                      => /\ in.kind = "KRB_ERROR" /\ in.decodes
                         /\ in.error = "KRB_ERR_RESPONSE_TOO_BIG"
          /\ (git.pc = "sendto" /\ wire.tcp_only)
             => (wire' = wire /\ git'.pc # "sendto")]_vars
    /\ []((/\ git.pc \in {"top", "sendto", "done"}
           /\ git.err_reply # NULL
           /\ git.err_reply.error = "KRB_ERR_RESPONSE_TOO_BIG")
          => /\ wire.tcp_only
             /\ git.pc = "done"
             /\ git.retval = "KRB5KRB_ERR_RESPONSE_TOO_BIG")

\* krb5_get_in_tkt ended on a RESPONSE_TOO_BIG that answered the TCP-only
\* transmission, the second of its call of send_as_request.
C28_Witness ==
    /\ git.pc = "done" /\ git.retval = "KRB5KRB_ERR_RESPONSE_TOO_BIG"
    /\ git.err_reply # NULL
    /\ git.err_reply.error = "KRB_ERR_RESPONSE_TOO_BIG"
    /\ wire.by = "git" /\ wire.tcp_only /\ wire.n = 2

\* The last call came to the decryption of an AS-REP: the reply was
\* classified as one and the pre-auth response processing succeeded.
LastDecrypting ==
    /\ last.called /\ last.in # EmptyData
    /\ init_creds_validate_reply(last.pre, last.in).code = OK
    /\ init_creds_validate_reply(last.pre, last.in).ctx.err_reply = NULL
    /\ last.pre.loopcount < MAX_IN_TKT_LOOPS
    /\ last.fail \notin {"fast", "reply_preauth"}

\* The AS key present when the decryption of the last reply began.
LastKeyPresent ==
    IF last.pa_key # "" THEN last.pa_key ELSE last.pre.as_key

\* The first decryption of the last reply failed, or there was no key for it.
LastNeedsGak ==
    \/ LastKeyPresent = ""
    \/ decrypt_as_reply(init_creds_validate_reply(last.pre, last.in).ctx.reply,
                        LastKeyPresent).code # OK

\* C29: on an AS-REP, with an AS key present the decryption is first tried
\* with it, and when it succeeds gak_fct is not asked (its failure has no
\* effect and the key stays); with no key or after that failure gak_fct is
\* asked once: its failure is returned without COMPLETE, else the reply is
\* decrypted once more with the key it gave, and that failure is returned
\* without COMPLETE and without another attempt.
C29_DecryptRetry ==
    LastDecrypting
    => IF ~LastNeedsGak
       THEN /\ ctx.as_key = LastKeyPresent
            /\ ctx.reply.enc_part2 # NULL
            /\ last.code \notin {"KRB5_LIBOS_PWDINTR",
                                 "KRB5KRB_AP_ERR_BAD_INTEGRITY"}
       ELSE IF last.fail = "gak_fct"
       THEN /\ last.code = "KRB5_LIBOS_PWDINTR" /\ ~last.complete
            /\ ctx.as_key = LastKeyPresent
            /\ ctx.reply.enc_part2 = NULL
            /\ ctx.cred = last.pre.cred
       ELSE /\ ctx.as_key = "K1"
            /\ IF decrypt_as_reply(ctx.reply, "K1").code # OK
               THEN /\ last.code = "KRB5KRB_AP_ERR_BAD_INTEGRITY"
                    /\ ~last.complete
                    /\ ctx.reply.enc_part2 = NULL
                    /\ ctx.cred = last.pre.cred
               ELSE /\ ctx.reply.enc_part2 # NULL
                    /\ last.code \notin {"KRB5_LIBOS_PWDINTR",
                                         "KRB5KRB_AP_ERR_BAD_INTEGRITY"}

\* The decryption with the key present failed, gak_fct gave another key and
\* the reply decrypted with it completed the exchange.
C29_Witness ==
    /\ LastDecrypting /\ LastKeyPresent = "K2" /\ LastNeedsGak
    /\ last.fail = "none"
    /\ ctx.as_key = "K1" /\ last.code = OK /\ last.complete

\* The key present failed to decrypt the reply and gak_fct failed.
C29_WitnessGakFailed ==
    /\ LastDecrypting /\ LastKeyPresent = "K2" /\ LastNeedsGak
    /\ last.fail = "gak_fct" /\ last.code = "KRB5_LIBOS_PWDINTR"

\* The key present decrypted the reply and gak_fct, failing, was not asked.
C29_WitnessNoGak ==
    /\ LastDecrypting /\ LastKeyPresent = "K2" /\ ~LastNeedsGak
    /\ last.fail = "gak_fct" /\ last.code = OK /\ last.complete

\* gak_fct gave a key that does not decrypt the reply.
C29_WitnessSecondFailed ==
    /\ LastDecrypting /\ LastNeedsGak /\ last.fail = "none"
    /\ last.code = "KRB5KRB_AP_ERR_BAD_INTEGRITY"

\* The reply the context holds after the last call is decrypted and
\* verify_as_reply returns 0 for it against the request it answered.
LastVerified ==
    /\ LastDecrypting
    /\ ctx.reply # NULL /\ ctx.reply.enc_part2 # NULL
    /\ verify_as_reply(kcontext, last.pre.request_time, last.pre.request,
                       ctx.reply).code = OK

\* The same for the reply krb5_get_in_tkt holds.
GitVerifiedReply ==
    /\ git.pc = "done"
    /\ git.as_reply # NULL /\ git.as_reply.enc_part2 # NULL
    /\ verify_as_reply(kcontext, git.time_now, git.request,
                       git.as_reply).code = OK

\* C30: on an AS-REP both drivers classify the reply, process its pre-auth
\* data, decrypt, verify and stash in this order, each step only after the
\* one before it succeeded: a decrypted reply passed the classification and
\* the pre-auth processing, a verification result belongs to a decrypted
\* reply, the credential is written, COMPLETE set and the cache updated
\* only with verify_as_reply returning 0 for that reply, and a request is
\* built on a reply only when the reply was classified before: as a
\* KRB-ERROR that the error processing accepted, or as the RESPONSE_TOO_BIG
\* that makes krb5_init_creds_step go on to the request.
C30_ProcessingOrder ==
    /\ (last.called /\ last.in # EmptyData)
       => /\ (ctx.reply # NULL /\ ctx.reply.enc_part2 # NULL)
             => LastDecrypting
          /\ last.code \in {"KRB5_KDCREP_MODIFIED", "KRB5_KDCREP_SKEW"}
             => (LastDecrypting /\ ctx.reply.enc_part2 # NULL
                 /\ ~last.complete /\ ctx.cred = last.pre.cred)
          /\ (ctx.cred # last.pre.cred \/ last.complete) => LastVerified
          /\ last.complete => last.code = OK
          /\ last.entry \in {"krb5_do_preauth", "krb5_do_preauth_tryagain"}
             => /\ init_creds_validate_reply(last.pre, last.in).code
                       \in {OK, "KRB5KRB_ERR_RESPONSE_TOO_BIG"}
                /\ init_creds_validate_reply(last.pre, last.in).code = OK
                   => (ctx.err_reply # NULL /\ last.fail # "fast")
    /\ (git.pc \in {"top", "sendto", "done"})
       => /\ (git.as_reply # NULL /\ git.as_reply.enc_part2 # NULL)
             => git.pc = "done"
          /\ (git.pc = "done"
              /\ git.retval \in {"KRB5_KDCREP_MODIFIED", "KRB5_KDCREP_SKEW"})
             => (git.as_reply # NULL /\ git.as_reply.enc_part2 # NULL
                 /\ git.creds.times = EmptyCreds.times)
          /\ (\/ git.creds.times # EmptyCreds.times
              \/ git.creds.ticket # NULL
              \/ (git.ccache # NULL /\ git.ccache.stored # <<>>)
              \/ (git.pc = "done" /\ git.retval = OK))
             => GitVerifiedReply
          /\ (git.pc = "top" /\ git.loopcount > 0)
             => (git.err_reply # NULL \/ git.as_reply # NULL)

\* krb5_get_in_tkt stored the credential of a verified reply in the cache.
C30_Witness ==
    /\ git.pc = "done" /\ git.retval = OK /\ GitVerifiedReply
    /\ git.ccache # NULL /\ git.ccache.stored # <<>>

\* The step API completed with the credential of a verified reply.
C30_WitnessStep ==
    /\ last.called /\ last.complete /\ LastVerified
    /\ ctx.cred # last.pre.cred

\* A decrypted reply failed the verification and nothing was written.
C30_WitnessRejected ==
    /\ last.called /\ last.code = "KRB5_KDCREP_MODIFIED"
    /\ ctx.reply.enc_part2 # NULL /\ ctx.cred = last.pre.cred

\* The preference sort_krb5_padata_sequence worked with in the call fn
\* records: the numbers of the configured string, the realm stanza before
\* [libdefaults], or 17, 16, 15, 14 when none is configured or read.
SortPreference ==
    IF fn.fail # "none" THEN <<17, 16, 15, 14>>
    ELSE IF fn.profile.realm # NULL THEN PreferredTypes(fn.profile.realm.v)
    ELSE IF fn.profile.libdefaults # NULL
    THEN PreferredTypes(fn.profile.libdefaults.v)
    ELSE <<17, 16, 15, 14>>

\* The types promoted from the list l by the preference prefs: each entry
\* in order that still finds an element of its type not promoted before.
RECURSIVE Promoted(_, _, _)
Promoted(l, prefs, done) ==
    LET Count(t, q) == Cardinality({i \in 1..Len(q) : q[i] = t})
    IN  IF prefs = <<>> THEN done
        ELSE IF Count(Head(prefs), l) > Count(Head(prefs), done)
        THEN Promoted(l, Tail(prefs), Append(done, Head(prefs)))
        ELSE Promoted(l, Tail(prefs), done)

\* C31: the result of sort_krb5_padata_sequence is a permutation of the
\* list; it begins with the promoted types in the order of the preference,
\* each the first element of its type not promoted before, and the elements
\* not promoted follow in their original relative order; an empty preference
\* changes nothing and without a configured preference 17, 16, 15, 14 is
\* used ("1" on [2,1,3] gives [1,2,3], "1, 3" gives [1,3,2]).
C31_SortPadata ==
    fn.f = "sort_krb5_padata_sequence"
    => LET in == fn.padata.list
           out == fn.result.list
           pro == Promoted(in, SortPreference, <<>>)
           Count(t, q) == Cardinality({i \in 1..Len(q) : q[i] = t})
           \* the positions of in that stay: not among the first elements
           \* of their type that were promoted
           Stays(i) == Count(in[i], SubSeq(in, 1, i)) > Count(in[i], pro)
           rest == {i \in 1..Len(in) : Stays(i)}
       IN  /\ Len(out) = Len(in)
           /\ \A t \in {1, 2, 3, 14, 17} : Count(t, out) = Count(t, in)
           /\ SubSeq(out, 1, Len(pro)) = pro
           /\ Cardinality(rest) = Len(in) - Len(pro)
           /\ \A i \in rest :
                 out[Len(pro) + Cardinality({j \in rest : j <= i})] = in[i]
           /\ SortPreference = <<>> => out = in
           /\ (in = <<2, 1, 3>> /\ SortPreference = <<1>>)
              => out = <<1, 2, 3>>
           /\ (in = <<2, 1, 3>> /\ SortPreference = <<1, 3>>)
              => out = <<1, 3, 2>>

\* The preference "1, 3" of the realm stanza sorted [2,1,3] to [1,3,2].
C31_Witness ==
    /\ fn.f = "sort_krb5_padata_sequence" /\ fn.fail = "none"
    /\ fn.padata.list = <<2, 1, 3>>
    /\ fn.profile.realm = [v |-> <<"1", ",", " ", "3">>]
    /\ fn.result.list = <<1, 3, 2>>

\* Without a configured preference 17 came before 14 and 3 stayed last.
C31_WitnessDefault ==
    /\ fn.f = "sort_krb5_padata_sequence"
    /\ fn.profile = [realm |-> NULL, libdefaults |-> NULL]
    /\ fn.padata.list = <<3, 14, 17>>
    /\ fn.result.list = <<17, 14, 3>>

\* C32: a reply that is neither a KRB-ERROR nor an AS-REP gives
\* KRB5KRB_AP_ERR_V4_REPLY exactly when its first byte is 4 and its second
\* byte without the low bit is 10, and KRB5KRB_AP_ERR_MSG_TYPE otherwise; a
\* reply that decodes as an AS-REP with another msg_type gives
\* KRB5KRB_AP_ERR_MSG_TYPE; send_as_request and init_creds_validate_reply
\* agree on both.
C32_ReplyClassification ==
    fn.f = "classify"
    => /\ fn.reply.kind = "OTHER"
          => /\ fn.send.retval = fn.step.code
             /\ fn.step.code =
                   IF fn.reply.b0 = 4 /\ fn.reply.b1 \in {10, 11}
                   THEN "KRB5KRB_AP_ERR_V4_REPLY"
                   ELSE "KRB5KRB_AP_ERR_MSG_TYPE"
       /\ (fn.reply.kind = "AS_REP" /\ fn.reply.decodes
           /\ fn.reply.msg_type # "KRB5_AS_REP")
          => /\ fn.send.retval = "KRB5KRB_AP_ERR_MSG_TYPE"
             /\ fn.step.code = "KRB5KRB_AP_ERR_MSG_TYPE"

\* The enctype list of the request after the enctype block.
RequestList == SubSeq(fn.request.ktype, 1, fn.request.nktypes)

\* The list of the caller without the enctypes outside the built-in set and
\* without repetitions, in the order of the caller.
RECURSIVE CallerPreferred(_, _)
CallerPreferred(l, seen) ==
    IF l = <<>> THEN <<>>
    ELSE IF Head(l) \in seen \/ Head(l) \notin {16, 23, 3, 2, 1}
    THEN CallerPreferred(Tail(l), seen)
    ELSE <<Head(l)>> \o CallerPreferred(Tail(l), seen \cup {Head(l)})

\* C33: with a list of the caller every enctype of the request list is one
\* of the built-in set, the enctypes of the caller that are in the set come
\* first in the order of the caller, and none comes twice.
C33_EnctypesSelected ==
    (fn.f = "ktypes" /\ fn.ktypes # NULL)
    => LET pre == CallerPreferred(fn.ktypes.list, {})
       IN  /\ \A i \in 1..Len(RequestList) :
                 RequestList[i] \in {16, 23, 3, 2, 1}
           /\ \A i, j \in 1..Len(RequestList) :
                 RequestList[i] = RequestList[j] => i = j
           /\ Len(RequestList) >= Len(pre)
           /\ SubSeq(RequestList, 1, Len(pre)) = pre

\* The caller named arcfour twice, an enctype outside the set and des3.
C33_Witness ==
    /\ fn.f = "ktypes" /\ fn.ktypes # NULL
    /\ fn.ktypes.list = <<23, 23, 18>> \/ fn.ktypes.list = <<23, 18, 16>>
    /\ RequestList[1] = 23

\* C34: after the enctypes of the caller were promoted the built-in
\* enctypes the caller did not name are still in the request list, counted
\* by request.nktypes, after the promoted ones.
C34_RemainderPreserved ==
    (fn.f = "ktypes" /\ fn.ktypes # NULL)
    => LET pre == CallerPreferred(fn.ktypes.list, {})
       IN  /\ fn.request.nktypes = 5
           /\ \A t \in {16, 23, 3, 2, 1} :
                 \E i \in 1..Len(RequestList) :
                    /\ RequestList[i] = t
                    /\ (\A k \in 1..Len(pre) : pre[k] # t) => i > Len(pre)

\* C35: when stash_as_reply fails the credential has no session key, no
\* ticket and no addresses, a session key it had copied was released with
\* all its bytes zero, the principals it had copied from the reply are
\* freed, and client and server of the credential are as on entry; when it
\* succeeds a client or server that was NULL is the one of the reply, and
\* one that was set is unchanged.
C35_StashCleanup ==
    fn.f = "stash_as_reply"
    => IF fn.result.code # OK
       THEN /\ fn.result.creds.keyblock = ""
            /\ fn.result.creds.ticket = NULL
            /\ fn.result.creds.addresses = NULL
            /\ fn.result.creds.client = fn.creds.client
            /\ fn.result.creds.server = fn.creds.server
            /\ fn.fail \in {"krb5_copy_addresses", "encode_krb5_ticket",
                            "krb5_cc_store_cred"}
               => fn.result.freed.keyblock # NULL
            /\ fn.result.freed.keyblock # NULL
               => /\ Len(fn.result.freed.keyblock.bytes)
                        = Len(KeyContents(fn.as_reply.enc_part2.session))
                  /\ Len(fn.result.freed.keyblock.bytes) > 0
                  /\ \A i \in 1..Len(fn.result.freed.keyblock.bytes) :
                        fn.result.freed.keyblock.bytes[i] = 0
            /\ fn.fail \in {"encode_krb5_ticket", "krb5_cc_store_cred"}
               => fn.result.freed.addresses
                      = (fn.as_reply.enc_part2.caddrs # NULL)
            /\ fn.fail = "krb5_cc_store_cred" => fn.result.freed.ticket
            /\ fn.result.freed.principals.client
                  = (fn.creds.client = NULL /\ fn.fail # "copy_client")
            /\ fn.result.freed.principals.server
                  = (fn.creds.server = NULL
                     /\ fn.fail \notin {"copy_client", "copy_server"})
       ELSE /\ fn.result.creds.client =
                  IF fn.creds.client = NULL THEN fn.as_reply.client
                  ELSE fn.creds.client
            /\ fn.result.creds.server =
                  IF fn.creds.server = NULL
                  THEN fn.as_reply.enc_part2.server
                  ELSE fn.creds.server
            /\ fn.result.creds.keyblock = fn.as_reply.enc_part2.session
            /\ fn.result.freed.keyblock = NULL

\* The cache store failed after the key, the addresses and the ticket were
\* in the credential, and both principals had been copied.
C35_Witness ==
    /\ fn.f = "stash_as_reply" /\ fn.fail = "krb5_cc_store_cred"
    /\ fn.result.code = "KRB5_CC_IO"
    /\ fn.creds.client = NULL /\ fn.creds.server = NULL
    /\ fn.result.freed.keyblock = [bytes |-> <<0, 0>>]
    /\ fn.result.freed.addresses /\ fn.result.freed.ticket

\* The upper 16 bits of the true sum of the arguments of the call fn
\* records, with the carry of the lower 16 bits, and the lower 16 bits.
AddintHigh ==
    (fn.x \div 65536) + (fn.y \div 65536)
    + (((fn.x % 65536) + (fn.y % 65536)) \div 65536)

AddintLow == ((fn.x % 65536) + (fn.y % 65536)) % 65536

\* C36: krb5int_addint32 returns the true sum when it is a krb5_int32,
\* KRB5_INT32_MAX when the sum is above and KRB5_INT32_MIN when it is below,
\* and none of the expressions it evaluates leaves the 32 bits.
C36_Addint32 ==
    fn.f = "krb5int_addint32"
    => /\ fn.result >= KRB5_INT32_MIN /\ fn.result <= KRB5_INT32_MAX
       /\ fn.result = IF AddintHigh > 32767 THEN KRB5_INT32_MAX
                      ELSE IF AddintHigh < -32768 THEN KRB5_INT32_MIN
                      ELSE AddintHigh * 65536 + AddintLow
       /\ ~fn.overflow

\* The sum was above KRB5_INT32_MAX by one.
C36_Witness ==
    /\ fn.f = "krb5int_addint32"
    /\ fn.x = 1 /\ fn.y = KRB5_INT32_MAX
    /\ fn.result = KRB5_INT32_MAX /\ ~fn.overflow

\* The sum was below KRB5_INT32_MIN.
C36_WitnessLow ==
    /\ fn.f = "krb5int_addint32"
    /\ fn.x = KRB5_INT32_MIN /\ fn.y = -1
    /\ fn.result = KRB5_INT32_MIN

\* C37: krb5int_init_creds_get_ext returns 0 only on a context that holds a
\* credential stashed from a reply that was decrypted and passed
\* verify_as_reply, also when it is called again after a step that failed
\* on a decoded AS-REP.
C37_GetSuccessVerified ==
    (drv.pc = "done" /\ drv.code = OK)
    => /\ ctx.reply # NULL /\ ctx.reply.enc_part2 # NULL
       /\ verify_as_reply(kcontext, ctx.request_time, ctx.request,
                          ctx.reply).code = OK
       /\ ctx.cred.ticket # NULL
       /\ ctx.cred.keyblock = ctx.reply.enc_part2.session

\* The last call was given a reply classified as an AS-REP.
LastInAsRep ==
    /\ last.called /\ last.in # EmptyData
    /\ init_creds_validate_reply(last.pre, last.in).code = OK
    /\ init_creds_validate_reply(last.pre, last.in).ctx.err_reply = NULL

\* C38: the step API tests the loop limit only on an AS-REP: one that comes
\* with loopcount at 16 or more is rejected with KRB5_GET_IN_TKT_LOOP before
\* any pre-auth processing or decryption, one that comes with loopcount
\* below 16 is not rejected by the test, and no other reply is; loopcount
\* grows by one on each call that returns 0 with a request and stays on a
\* call that fails or completes.
C38_LoopCheckOnAsRep ==
    last.called
    => /\ (LastInAsRep /\ last.pre.loopcount >= MAX_IN_TKT_LOOPS)
          => /\ last.code = "KRB5_GET_IN_TKT_LOOP"
             /\ ~last.complete /\ last.out = EmptyData
             /\ last.pa_key = ""
             /\ ctx.as_key = last.pre.as_key
             /\ ctx.reply.enc_part2 = NULL
             /\ ctx.cred = last.pre.cred
       /\ last.code = "KRB5_GET_IN_TKT_LOOP"
          => (LastInAsRep /\ last.pre.loopcount >= MAX_IN_TKT_LOOPS)
       /\ (last.code = OK /\ last.out # EmptyData)
          => ctx.loopcount = last.pre.loopcount + 1
       /\ (last.code # OK \/ last.complete)
          => ctx.loopcount = last.pre.loopcount
       /\ (last.code = OK /\ ~last.complete) => last.out # EmptyData

\* A valid AS-REP answered the 16th or a later request and was rejected.
C38_Witness ==
    /\ LastInAsRep /\ last.pre.loopcount >= MAX_IN_TKT_LOOPS
    /\ last.fail = "none"
    /\ last.in = GoodAsRep(last.pre.encoded_previous_request, "K1",
                           kcontext.now)
    /\ last.code = "KRB5_GET_IN_TKT_LOOP"

\* A valid AS-REP answered the 15th request and completed the exchange.
C38_WitnessBelow ==
    /\ LastInAsRep /\ last.pre.loopcount = MAX_IN_TKT_LOOPS - 1
    /\ last.complete /\ last.code = OK

\* C39: once the step API has built the first request, request.from is
\* krb5int_addint32(request_time, start_time) and stays; with request_time +
\* start_time other than 0 no step call returns KRB5_KDCREP_SKEW, whatever
\* the start time of the reply; with from at 0 the start time of a reply
\* that passed the other tests is compared with request_time, the time of
\* the first request, and not with the time the reply is processed.
C39_SkewCheck ==
    /\ [](ctx.loopcount > 0
          => ctx.request.from
                = krb5int_addint32(ctx.request_time, ctx.start_time))
    /\ [][ctx.loopcount > 0
          => /\ ctx'.request.from = ctx.request.from
             /\ ctx'.request_time = ctx.request_time]_vars
    /\ []((last.called /\ last.pre.request_time + last.pre.start_time # 0
           /\ last.pre.loopcount > 0)
          => last.code # "KRB5_KDCREP_SKEW")
    /\ []((LastDecrypting /\ last.fail = "none"
           /\ last.pre.request.from = 0
           /\ last.code \in {OK, "KRB5_KDCREP_SKEW"})
          => LET starttime ==
                     IF last.in.enc.times.starttime = 0
                     THEN last.in.enc.times.authtime
                     ELSE last.in.enc.times.starttime
                 away == IF starttime > last.pre.request_time
                         THEN starttime - last.pre.request_time
                         ELSE last.pre.request_time - starttime
             IN  (last.code = "KRB5_KDCREP_SKEW")
                 <=> (away > kcontext.clockskew))

\* With from at 0 a reply issued 400 seconds after the request, processed
\* at the time it was issued, was rejected for the clock skew.
C39_Witness ==
    /\ LastDecrypting /\ last.pre.request.from = 0
    /\ last.pre.loopcount > 0
    /\ last.code = "KRB5_KDCREP_SKEW"
    /\ last.in.enc.times.starttime = 0
    /\ last.in.enc.times.authtime = kcontext.now
    /\ kcontext.now = last.pre.request_time + 400

\* Without postdating a reply with a start time 400 seconds after the
\* request completed the exchange.
C39_WitnessNoCheck ==
    /\ LastDecrypting /\ last.pre.start_time = 0
    /\ last.pre.request.from = last.pre.request_time
    /\ last.in.enc.times.starttime = last.pre.request_time + 400
    /\ last.code = OK /\ last.complete

\* C40: krb5_init_creds_init sets the nonce to a value in [0, 2^31), the
\* random octets with the high bit cleared (whatever octets the generator
\* wrote for the context just initialised), or to the time of day when the
\* random generator fails; no step call changes it, so every request of a
\* context (the first, the pre-auth retries, the referrals and the
\* re-emissions after RESPONSE_TOO_BIG) carries the nonce of the context;
\* krb5_get_in_tkt gives each request it encodes the time of day it read in
\* that loop iteration.
C40_Nonce ==
    /\ (ctx # NULL /\ ~last.called /\ wire.n = 0)
       => \A b1 \in {0, 127, 128, 255}, b2, b3, b4 \in {0, 255},
             now \in {ClockStart, ClockStart + MaxTick} :
          /\ InitNonce(<<b1, b2, b3, b4>>, "none", now).nonce
                \in 0..KRB5_INT32_MAX
          /\ InitNonce(<<b1, b2, b3, b4>>, "none", now).nonce % 16777216
                = b2 * 65536 + b3 * 256 + b4
          /\ InitNonce(<<b1, b2, b3, b4>>, "none", now).nonce \div 16777216
                = (IF b1 >= 128 THEN b1 - 128 ELSE b1)
          /\ InitNonce(<<b1, b2, b3, b4>>, "krb5_c_random_make_octets",
                       now) = [code |-> OK, nonce |-> now]
    /\ ctx # NULL => ctx.request.nonce \in Nonces
    /\ last.called
       => /\ ctx.request.nonce = last.pre.request.nonce
          /\ last.out # EmptyData => last.out.nonce = ctx.request.nonce
    /\ wire.by = "get" => wire.request.nonce = ctx.request.nonce
    /\ git.pc = "sendto"
       => /\ wire.by = "git"
          /\ wire.request.nonce = git.time_now
          /\ git.request.nonce = git.time_now
          /\ git.time_now = kcontext.now

\* krb5int_init_creds_get_ext sent a third request, after a referral or a
\* pre-auth retry, with the nonce of the first.
C40_Witness ==
    /\ wire.by = "get" /\ wire.n >= 3
    /\ ctx.loopcount >= 3
    /\ wire.request.nonce = 7

\* krb5_get_in_tkt sent a second request with a later time as its nonce.
C40_WitnessGit ==
    /\ git.pc = "sendto" /\ git.loopcount >= 2 /\ ~wire.tcp_only
    /\ wire.request.nonce = ClockStart + 1

====
